---- MODULE Spec2Model ----
(***************************************************************************)
(* Peer life-cycle simulator of EcNode (src/peer_lifecycle): the           *)
(* relationship state machine, the discovery lookup, the round loop of     *)
(* NetworkSimulator.simulate_round and the eviction policies.              *)
(***************************************************************************)
EXTENDS Integers, Sequences, FiniteSets, TLC

\* ---------------------------------------------------------------- bounds
\* SimulationConfig values of the checked runs (the defaults are 32 bits,
\* 100 + 50 peers, 10 connections, 4 identified peers, 1000 rounds).
AddressBits == 2
NumEstablished == 3
NumJoining == 1
MaxConnections == 2
InitialIdentified == 1
MaxRound == 2
\* the longest list of peer ids, other than the registry itself, that a direct
\* call of an eviction function is given
MaxListLen == 2
\* the walks called one by one: an address space of WalkBits bits, WalkPeers
\* registered peers, and at most WalkDegree Connected relationships per peer
WalkBits == 4
WalkPeers == 12
WalkDegree == 1
\* the configurations given to the constructor: up to MaxConfigPeers established
\* peers, up to NumJoining joining peers, bounds 0 .. MaxConnections, address
\* spaces of 1 .. AddressBits bits
MaxConfigPeers == 3
\* the widest address space whose ids are given to the distance functions
DistanceBits == 4
\* the largest max_connections and the largest number of other peers for which the
\* bucket targets are computed
MaxBudget == 16
MaxOthers == 9
\* the longest inbox and the number of senders of the direct calls of process_invites
MaxInbox == 3
NumSenders == 2
\* the largest max_connections of the networks whose prefix-bucketed eviction is checked
MaxPrefixConnections == 3

\* ------------------------------------------------------------- constants
\* max_hops=10 of the lookup's walks
MaxHops == 10
\* PeerInfo.last_heard_from default: never contacted
NeverHeard == -1
\* Python's None for an Optional[int] peer id
NoPeer == -1

\* the ids random.randint(0, max_id) can draw in an address space of the given width
IdsOf(bits) == 0 .. (2 ^ bits - 1)

CONNECTED == "Connected"
PROSPECT == "Prospect"
PENDING == "Pending"
IDENTIFIED == "Identified"
\* get_peer_state returns None when there is no record
UNKNOWN == "Unknown"

VARIABLES
    order,            \* NetworkSimulator.peers: the registry's keys in dict (insertion) order
    connected_set,    \* NetworkSimulator.connected_set
    candidate_set,    \* NetworkSimulator.candidate_set
    policy,           \* which Peer class the simulator was built with
    address_space_bits, \* SimulationConfig.address_space_bits
    max_connections,  \* Peer.max_connections, per peer
    known_peers,      \* Peer.known_peers, per peer: peer id -> PeerInfo
    pending_invites,  \* Peer.pending_invites, per peer: sequence of Invite
    round_number,     \* NetworkSimulator.round_number
    invites_to_send,  \* simulate_round's local list of (sender_id, receiver_id)
    pc,               \* position inside simulate_round
    idx,              \* position of the current loop inside the registry
    lookup,           \* auxiliary: the mapping request of the last phase-1 iteration
    drained,          \* auxiliary: the inbox the last process_invites call applied
    round_start,      \* auxiliary: known_peers as simulate_round found it
    call,             \* the last direct call of a function with its result, or the frame of a running walk
    entry_times,      \* SimulationMetrics.entry_times: joining peer id -> round of its first connection
    simulation_rounds \* SimulationConfig.simulation_rounds

vars == <<order, connected_set, candidate_set, policy, address_space_bits, max_connections, known_peers,
          pending_invites, round_number, invites_to_send, pc, idx, lookup, drained, round_start, call,
          entry_times, simulation_rounds>>

\* ------------------------------------------------------------- helpers
Range(s) == {s[i] : i \in 1 .. Len(s)}

\* the registry self.peers, as a set of ids
peers == Range(order)

Min2(a, b) == IF a <= b THEN a ELSE b

Max2(a, b) == IF a >= b THEN a ELSE b

\* all orderings of the set S, as sequences without repetition
Perms(S) == {s \in [1 .. Cardinality(S) -> S] : \A i, j \in 1 .. Cardinality(S) : s[i] = s[j] => i = j}

\* random.sample(population, k): a sequence of k distinct elements
Samples(S, k) == {s \in [1 .. k -> S] : \A i, j \in 1 .. k : s[i] = s[j] => i = j}

RECURSIVE Xor(_, _)
\* Peer._xor_distance: peer1_id ^ peer2_id
Xor(a, b) == IF a = 0 /\ b = 0 THEN 0
             ELSE (((a % 2) + (b % 2)) % 2) + (2 * Xor(a \div 2, b \div 2))

xor_distance(a, b) == Xor(a, b)

RECURSIVE Ascending(_)
\* the ids of S in increasing order
Ascending(S) ==
    IF S = {} THEN <<>>
    ELSE LET m == CHOOSE x \in S : \A y \in S : x <= y IN <<m>> \o Ascending(S \ {m})

\* ------------------------------------------------------------- Peer
PeerInfo(s, r) == [state |-> s, last_heard_from |-> r]

\* Invite(sender_id, round_sent); kind is auxiliary: which loop of the round queued it
Invite(s, r, k) == [sender_id |-> s, round_sent |-> r, kind |-> k]

\* Peer.add_peer
add_peer(kp, pid, s, r) == [q \in (DOMAIN kp) \cup {pid} |-> IF q = pid THEN PeerInfo(s, r) ELSE kp[q]]

\* Peer.get_peer_state
get_peer_state(kp, pid) == IF pid \in DOMAIN kp THEN kp[pid].state ELSE UNKNOWN

\* Peer.set_peer_state
set_peer_state(kp, pid, s, r) ==
    IF pid \in DOMAIN kp
    THEN [kp EXCEPT ![pid] = PeerInfo(s, IF r >= 0 THEN r ELSE @.last_heard_from)]
    ELSE add_peer(kp, pid, s, r)

\* Peer.update_last_heard_from
update_last_heard_from(kp, pid, r) ==
    IF pid \in DOMAIN kp THEN [kp EXCEPT ![pid].last_heard_from = r] ELSE kp

\* Peer.get_peers_by_state
get_peers_by_state(kp, s) == {pid \in DOMAIN kp : kp[pid].state = s}

\* Peer.get_connected_peers
get_connected_peers(kp) == get_peers_by_state(kp, CONNECTED)

\* min(candidates, key=distance to target); XOR distances of distinct ids differ
ClosestTo(S, target) == CHOOSE p \in S : \A q \in S : xor_distance(p, target) <= xor_distance(q, target)

\* Peer.find_closest_peer_to_target (exclude_states empty)
find_closest_peer_to_target(kp, target) ==
    IF DOMAIN kp = {} THEN NoPeer ELSE ClosestTo(DOMAIN kp, target)

\* Python truthiness of an Optional[int]: None and 0 are both false
Truthy(pid) == pid # NoPeer /\ pid # 0

\* the reactive transition with an unknown sender admitted at once
apply_invite_admits_unknown(kp, invite, r) ==
    LET s == get_peer_state(kp, invite.sender_id) IN
    CASE s = PENDING -> set_peer_state(kp, invite.sender_id, CONNECTED, r)
      [] s = IDENTIFIED -> set_peer_state(kp, invite.sender_id, PROSPECT, r)
      [] s = CONNECTED -> update_last_heard_from(kp, invite.sender_id, r)
      [] s = UNKNOWN -> set_peer_state(kp, invite.sender_id, CONNECTED, r)
      [] OTHER -> kp

\* a reactive transition that sends the record of a Pending sender back to Identified
apply_invite_demotes_pending(kp, invite, r) ==
    LET s == get_peer_state(kp, invite.sender_id) IN
    CASE s = PENDING -> set_peer_state(kp, invite.sender_id, IDENTIFIED, r)
      [] s = IDENTIFIED -> set_peer_state(kp, invite.sender_id, PROSPECT, r)
      [] s = CONNECTED -> update_last_heard_from(kp, invite.sender_id, r)
      [] s = UNKNOWN -> set_peer_state(kp, invite.sender_id, PROSPECT, r)
      [] OTHER -> kp

\* a reactive transition that admits a Prospect sender
apply_invite_promotes_prospect(kp, invite, r) ==
    LET s == get_peer_state(kp, invite.sender_id) IN
    CASE s = PENDING -> set_peer_state(kp, invite.sender_id, CONNECTED, r)
      [] s = IDENTIFIED -> set_peer_state(kp, invite.sender_id, PROSPECT, r)
      [] s = PROSPECT -> set_peer_state(kp, invite.sender_id, CONNECTED, r)
      [] s = CONNECTED -> update_last_heard_from(kp, invite.sender_id, r)
      [] s = UNKNOWN -> set_peer_state(kp, invite.sender_id, PROSPECT, r)
      [] OTHER -> kp

\* one reactive transition of Peer.process_invites
apply_invite(kp, invite, r) ==
    LET s == get_peer_state(kp, invite.sender_id) IN
    CASE s = PENDING -> set_peer_state(kp, invite.sender_id, CONNECTED, r)
      [] s = IDENTIFIED -> set_peer_state(kp, invite.sender_id, PROSPECT, r)
      [] s = CONNECTED -> update_last_heard_from(kp, invite.sender_id, r)
      [] s = UNKNOWN -> set_peer_state(kp, invite.sender_id, PROSPECT, r)
      [] OTHER -> kp

RECURSIVE process_invites_every_other(_, _, _)
\* process_invites losing every second invite, as a loop that removes from the
\* list it iterates over does
process_invites_every_other(kp, inbox, r) ==
    IF inbox = <<>> THEN kp
    ELSE process_invites_every_other(apply_invite(kp, Head(inbox), r),
                                     IF Len(inbox) >= 2 THEN Tail(Tail(inbox)) ELSE <<>>, r)

RECURSIVE process_invites(_, _, _)
\* Peer.process_invites: the relationships after the whole inbox was applied in order
process_invites(kp, inbox, r) ==
    IF inbox = <<>> THEN kp
    ELSE process_invites(apply_invite(kp, Head(inbox), r), Tail(inbox), r)

\* ------------------------------------------------------------- lookup
RECURSIVE recursive_search_with_hop_limit(_, _, _, _)
\* NetworkSimulator._recursive_search_with_hop_limit over the relationships kpAll
recursive_search_with_hop_limit(kpAll, start, target, hops) ==
    IF hops <= 0 \/ start \notin peers THEN start
    ELSE LET connected == get_connected_peers(kpAll[start]) IN
         IF connected = {} THEN start
         ELSE LET closest_connected == ClosestTo(connected, target) IN
              IF xor_distance(start, target) <= xor_distance(closest_connected, target)
              THEN start
              ELSE recursive_search_with_hop_limit(kpAll, closest_connected, target, hops - 1)

RECURSIVE walk_path_any_hop(_, _, _, _)
\* a walk that moves to the closest Connected peer whether or not it is closer
walk_path_any_hop(kpAll, start, target, hops) ==
    IF hops <= 0 \/ start \notin peers THEN <<start>>
    ELSE LET connected == get_connected_peers(kpAll[start]) IN
         IF connected = {} THEN <<start>>
         ELSE <<start>> \o walk_path_any_hop(kpAll, ClosestTo(connected, target), target, hops - 1)

RECURSIVE walk_path(_, _, _, _)
\* the nodes on which _recursive_search_with_hop_limit is called, from the
\* starting node to the node it returns
walk_path(kpAll, start, target, hops) ==
    IF hops <= 0 \/ start \notin peers THEN <<start>>
    ELSE LET connected == get_connected_peers(kpAll[start]) IN
         IF connected = {} THEN <<start>>
         ELSE LET closest_connected == ClosestTo(connected, target) IN
              IF xor_distance(start, target) <= xor_distance(closest_connected, target)
              THEN <<start>>
              ELSE <<start>> \o walk_path(kpAll, closest_connected, target, hops - 1)

\* the closest known peer, as simulate_mapping_request keeps it as a starting point
closest_start(kp, target) ==
    LET closest_peer_id == find_closest_peer_to_target(kp, target) IN
    IF Truthy(closest_peer_id) /\ closest_peer_id \in peers THEN <<closest_peer_id>> ELSE <<>>

\* available_randoms of simulate_mapping_request
available_randoms(kp, target) ==
    {pid \in DOMAIN kp : pid # find_closest_peer_to_target(kp, target) /\ pid \in peers}

\* the terminal of every walk, in walk order
walk_terminals(kpAll, starting_points, target) ==
    [i \in 1 .. Len(starting_points) |->
        recursive_search_with_hop_limit(kpAll, starting_points[i], target, MaxHops)]

\* responses of simulate_mapping_request: the terminals kept by "if response:"
responses(kpAll, starting_points, target) ==
    {t \in Range(walk_terminals(kpAll, starting_points, target)) : Truthy(t)}

\* a lookup that answers with the registered peer closest to the target when it
\* has no starting point
simulate_mapping_request_registry_fallback(kpAll, starting_points, target) ==
    IF starting_points = <<>> THEN ClosestTo(peers, target)
    ELSE LET resp == responses(kpAll, starting_points, target) IN
         IF resp = {} THEN NoPeer ELSE ClosestTo(resp, target)

\* NetworkSimulator.simulate_mapping_request for the drawn target and random starts
simulate_mapping_request(kpAll, starting_points, target) ==
    IF starting_points = <<>> THEN NoPeer
    ELSE LET resp == responses(kpAll, starting_points, target) IN
         IF resp = {} THEN NoPeer ELSE ClosestTo(resp, target)

\* ------------------------------------------------------------- bootstrap
\* NetworkSimulator._initialize_network, for the ids drawn by _generate_peer_ids.
\* The registry holds the established peers before the joining ones, each group
\* in the order of list(set), which the language leaves open: est_orders and
\* cand_orders are the orders considered.
InitNetworkRounds(pol, bits, est, cand, maxc, num_identified, est_orders, cand_orders, rounds) ==
    /\ \E oe \in est_orders : \E oc \in cand_orders : order = oe \o oc
    /\ connected_set = est
    /\ candidate_set = cand
    /\ policy = pol
    /\ address_space_bits = bits
    /\ max_connections = [p \in est \cup cand |-> maxc]
    /\ \E ident \in [cand -> SUBSET est] :
          /\ \A c \in cand : Cardinality(ident[c]) = Min2(num_identified, Cardinality(est))
          /\ known_peers = [p \in est \cup cand |->
                IF p \in est
                THEN [q \in est \ {p} |-> PeerInfo(CONNECTED, 0)]
                ELSE [q \in ident[p] |-> PeerInfo(IDENTIFIED, NeverHeard)]]
    /\ pending_invites = [p \in est \cup cand |-> <<>>]
    /\ round_number = 0
    /\ invites_to_send = <<>>
    /\ lookup = <<>>
    /\ drained = <<>>
    /\ round_start = known_peers
    /\ entry_times = <<>>
    /\ simulation_rounds = rounds
    /\ call = <<>>

\* the network of a simulator that is to run MaxRound rounds
InitNetwork(pol, bits, est, cand, maxc, num_identified, est_orders, cand_orders) ==
    InitNetworkRounds(pol, bits, est, cand, maxc, num_identified, est_orders, cand_orders, MaxRound)

\* the simulator after construction, for a configuration within the bounds
InitSimulator(pol) ==
    \E est \in SUBSET IdsOf(AddressBits) : \E cand \in SUBSET (IdsOf(AddressBits) \ est) :
    \E maxc \in 1 .. MaxConnections :
        /\ Cardinality(est) = NumEstablished
        /\ Cardinality(cand) = NumJoining
        /\ InitNetwork(pol, AddressBits, est, cand, maxc, InitialIdentified,
                       Perms(est), Perms(cand))
        /\ pc = "phase1"
        /\ idx = 1

\* NetworkSimulator(config), built with Peer: the uniform-random policy
Init == InitSimulator("uniform")

\* NetworkSimulator, DistanceOptimizedSimulator or ImprovedDistanceSimulator
InitPolicies == \E pol \in {"uniform", "static", "prefix"} : InitSimulator(pol)


\* ------------------------------------------------------------- the round
N == Len(order)

\* the self-initiated transition with a discovered Prospect sent back to Pending
discovery_transition_no_promotion(kp, discovered, r) ==
    LET s == get_peer_state(kp, discovered) IN
    CASE s = UNKNOWN -> set_peer_state(kp, discovered, PENDING, r)
      [] s = IDENTIFIED -> set_peer_state(kp, discovered, PENDING, r)
      [] s = PROSPECT -> set_peer_state(kp, discovered, PENDING, r)
      [] s = CONNECTED -> update_last_heard_from(kp, discovered, r)
      [] OTHER -> kp

\* the self-initiated transition of phase 1 for a discovered peer
discovery_transition(kp, discovered, r) ==
    LET s == get_peer_state(kp, discovered) IN
    CASE s = UNKNOWN -> set_peer_state(kp, discovered, PENDING, r)
      [] s = IDENTIFIED -> set_peer_state(kp, discovered, PENDING, r)
      [] s = PROSPECT -> set_peer_state(kp, discovered, CONNECTED, r)
      [] s = CONNECTED -> update_last_heard_from(kp, discovered, r)
      [] OTHER -> kp

\* phase 1 queueing an invite whatever the state of the record
discovery_invites_always(kp, discovered) ==
    get_peer_state(kp, discovered) \in {UNKNOWN, IDENTIFIED, PENDING, PROSPECT, CONNECTED}

\* the states in which phase 1 queues an invite
discovery_invites(kp, discovered) ==
    get_peer_state(kp, discovered) \in {UNKNOWN, IDENTIFIED, PROSPECT, CONNECTED}

\* the guard of phase 1 without its comparison with peer.id
acts_on_any(discovered, p) == Truthy(discovered) /\ discovered \in peers

\* the guard of phase 1 on the lookup's result
acts_on(discovered, p) == Truthy(discovered) /\ discovered # p /\ discovered \in peers

\* Phase 1, one iteration: the peer at position idx performs its mapping request
Discover ==
    /\ pc = "phase1"
    /\ round_number < simulation_rounds
    /\ LET p == order[idx]
           kp == known_peers[p] IN
       \E target \in IdsOf(address_space_bits) :
       \E random_starts \in Samples(available_randoms(kp, target),
                                     Min2(2, Cardinality(available_randoms(kp, target)))) :
       \E starting_points \in {closest_start(kp, target) \o random_starts} :
       \E discovered \in {simulate_mapping_request(known_peers, starting_points, target)} :
          /\ lookup' = <<[peer |-> p, target |-> target, starting_points |-> starting_points,
                          terminals |-> walk_terminals(known_peers, starting_points, target),
                          result |-> discovered, before |-> kp, queued |-> invites_to_send]>>
          /\ IF acts_on(discovered, p)
             THEN /\ known_peers' = [known_peers EXCEPT ![p] = discovery_transition(kp, discovered, round_number)]
                  /\ invites_to_send' = IF discovery_invites(kp, discovered)
                                        THEN Append(invites_to_send, <<p, discovered>>)
                                        ELSE invites_to_send
             ELSE UNCHANGED <<known_peers, invites_to_send>>
    /\ IF idx < N THEN idx' = idx + 1 /\ pc' = pc ELSE idx' = 1 /\ pc' = "phase2"
    /\ UNCHANGED <<entry_times, simulation_rounds,
                   call, order, connected_set, candidate_set, policy, address_space_bits, max_connections,
                   pending_invites, round_number, drained, round_start>>

RECURSIVE deliver_overwriting(_, _, _)
\* a delivery that leaves only the newest invite in the receiver's inbox
deliver_overwriting(inboxes, sends, r) ==
    IF sends = <<>> THEN inboxes
    ELSE LET s == Head(sends)
             next == IF s[2] \in peers
                     THEN [inboxes EXCEPT ![s[2]] = <<Invite(s[1], r, "discovery")>>]
                     ELSE inboxes IN
         deliver_overwriting(next, Tail(sends), r)

RECURSIVE deliver(_, _, _)
\* Phase 2: receive_invite on every receiver of invites_to_send, in list order
deliver(inboxes, sends, r) ==
    IF sends = <<>> THEN inboxes
    ELSE LET s == Head(sends)
             next == IF s[2] \in peers
                     THEN [inboxes EXCEPT ![s[2]] = Append(@, Invite(s[1], r, "discovery"))]
                     ELSE inboxes IN
         deliver(next, Tail(sends), r)

\* Phase 2: send the invites of phase 1
Dispatch ==
    /\ pc = "phase2"
    /\ pending_invites' = deliver(pending_invites, invites_to_send, round_number)
    /\ invites_to_send' = <<>>
    /\ lookup' = <<>>
    /\ pc' = "process"
    /\ idx' = 1
    /\ UNCHANGED <<entry_times, simulation_rounds,
                   call, order, connected_set, candidate_set, policy, address_space_bits, max_connections,
                   known_peers, round_number, drained, round_start>>

\* Phase 3, first statement of the loop body: peer.process_invites
ProcessInvites ==
    /\ pc = "process"
    /\ LET p == order[idx] IN
       /\ known_peers' = [known_peers EXCEPT ![p] = process_invites(@, pending_invites[p], round_number)]
       /\ pending_invites' = [pending_invites EXCEPT ![p] = <<>>]
       /\ drained' = <<[peer |-> p, inbox |-> pending_invites[p], before |-> known_peers[p]]>>
    /\ pc' = "maintain"
    /\ UNCHANGED <<entry_times, simulation_rounds,
                   call, order, connected_set, candidate_set, policy, address_space_bits, max_connections,
                   round_number, invites_to_send, idx, lookup, round_start>>

\* maintenance invites that reach every selected id, registered or not
maintenance_deliver_to_all(inboxes, selected_peers, invite) ==
    [q \in (DOMAIN inboxes) \cup selected_peers |->
        IF q \in selected_peers
        THEN Append(IF q \in DOMAIN inboxes THEN inboxes[q] ELSE <<>>, invite)
        ELSE inboxes[q]]

\* the loop over selected_peers: receive_invite on every target that is in the registry
maintenance_deliver(inboxes, selected_peers, invite) ==
    [q \in DOMAIN inboxes |->
        IF q \in selected_peers /\ q \in peers THEN Append(inboxes[q], invite) ELSE inboxes[q]]

\* Phase 3, second statement: maintenance invites to 2 connected peers
Maintain ==
    /\ pc = "maintain"
    /\ LET p == order[idx]
           connected_peers == get_connected_peers(known_peers[p]) IN
       IF Cardinality(connected_peers) >= 2
       THEN \E selected_peers \in SUBSET connected_peers :
               /\ Cardinality(selected_peers) = 2
               /\ pending_invites' = maintenance_deliver(pending_invites, selected_peers,
                                                         Invite(p, round_number, "maintenance"))
       ELSE UNCHANGED pending_invites
    /\ pc' = "remove"
    /\ drained' = <<>>
    /\ UNCHANGED <<entry_times, simulation_rounds,
                   call, order, connected_set, candidate_set, policy, address_space_bits, max_connections,
                   known_peers, round_number, invites_to_send, idx, lookup, round_start>>

\* a deletion that also drops the records of peers never heard from
delete_peers_and_unheard(kp, to_remove) ==
    [q \in {x \in (DOMAIN kp) \ to_remove : kp[x].last_heard_from # NeverHeard} |-> kp[q]]

\* the records left after the peers of to_remove were deleted
delete_peers(kp, to_remove) == [q \in (DOMAIN kp) \ to_remove |-> kp[q]]

\* remove_excess_connections with excess_count one too small
uniform_removals_short(kp, maxc) ==
    LET connected == get_connected_peers(kp) IN
    IF Cardinality(connected) <= maxc THEN {{}}
    ELSE {R \in SUBSET connected : Cardinality(R) = Cardinality(connected) - maxc - 1}

\* remove_excess_connections sampling among all known peers instead of the Connected ones
uniform_removals_any_state(kp, maxc) ==
    LET connected == get_connected_peers(kp) IN
    IF Cardinality(connected) <= maxc THEN {{}}
    ELSE {R \in SUBSET (DOMAIN kp) : Cardinality(R) = Cardinality(connected) - maxc}

\* Peer.remove_excess_connections: the possible values of to_remove
uniform_removals(kp, maxc) ==
    LET connected == get_connected_peers(kp) IN
    IF Cardinality(connected) <= maxc THEN {{}}
    ELSE {R \in SUBSET connected : Cardinality(R) = Cardinality(connected) - maxc}

\* the subsets of S with k elements, or all of S when it has fewer: random.sample(S, min(k, len(S)))
SubsetsOfSize(S, k) == {R \in SUBSET S : Cardinality(R) = Min2(k, Cardinality(S))}

RECURSIVE ClosestFirst(_, _)
\* the peers of S sorted by distance from p, closest first
ClosestFirst(S, p) ==
    IF S = {} THEN <<>>
    ELSE LET f == CHOOSE x \in S : \A y \in S : xor_distance(p, x) <= xor_distance(p, y) IN
         <<f>> \o ClosestFirst(S \ {f}, p)

RECURSIVE FurthestFirst(_, _)
\* the peers of S sorted by distance from p, furthest first
FurthestFirst(S, p) ==
    IF S = {} THEN <<>>
    ELSE LET f == CHOOSE x \in S : \A y \in S : xor_distance(p, x) >= xor_distance(p, y) IN
         <<f>> \o FurthestFirst(S \ {f}, p)

\* the first k elements of a sequence (all of it when it is shorter)
Take(s, k) == SubSeq(s, 1, Min2(k, Len(s)))

\* ---- DistanceOptimizedPeer: static distance-bucketed policy
\* connection_slack = max(2, max_connections // 4)
static_slack(maxc) == Max2(2, maxc \div 4)

\* soft_max_connections of DistanceOptimizedPeer
static_soft_max(maxc) == maxc + static_slack(maxc)

\* max_distance of calculate_optimal_distribution
static_max_distance(p, all_peers) ==
    LET others == all_peers \ {p} IN
    CHOOSE d \in {xor_distance(p, q) : q \in others} : \A q \in others : xor_distance(p, q) <= d

\* num_buckets = min(8, len(distances))
static_num_buckets(p, all_peers) == Min2(8, Cardinality(all_peers \ {p}))

\* bucket_ranges of calculate_optimal_distribution; bucket i of the code is entry i + 1
static_bucket_ranges(p, all_peers) ==
    LET md == static_max_distance(p, all_peers)
        nb == static_num_buckets(p, all_peers) IN
    [j \in 1 .. nb |->
        <<IF j = 1 THEN 0 ELSE md \div (2 ^ (nb - j)),
          IF j = nb THEN md ELSE md \div (2 ^ (nb - 1 - j))>>]

\* the first bucket whose range holds the distance d (0 when none does)
static_bucket_of(d, ranges) ==
    LET fits == {j \in 1 .. Len(ranges) : ranges[j][1] <= d /\ d <= ranges[j][2]} IN
    IF fits = {} THEN 0 ELSE CHOOSE j \in fits : \A k \in fits : j <= k

\* bucket_targets of calculate_optimal_distribution: max(1, int(weight / total_weight * budget))
static_bucket_targets(maxc, nb) ==
    [j \in 1 .. nb |-> Max2(1, ((2 ^ (nb - j)) * maxc) \div (2 ^ nb - 1))]

RECURSIVE static_bucket_removals(_, _, _, _, _)
\* to_remove of optimize_connections after the loop over the buckets j .. nb
static_bucket_removals(p, connected, ranges, targets, j) ==
    IF j > Len(ranges) THEN <<>>
    ELSE LET current_peers == {c \in connected : static_bucket_of(xor_distance(p, c), ranges) = j}
             current_count == Cardinality(current_peers)
             here == IF current_count > targets[j]
                     THEN Take(FurthestFirst(current_peers, p), current_count - targets[j])
                     ELSE <<>> IN
         here \o static_bucket_removals(p, connected, ranges, targets, j + 1)

\* optimize_connections without the random removal of the excess the buckets leave
optimize_connections_buckets_only(p, kp, maxc, all_peers) ==
    LET current_connected == get_connected_peers(kp)
        excess == Cardinality(current_connected) - maxc IN
    IF Cardinality(all_peers) <= 1 THEN {{}}
    ELSE IF Cardinality(current_connected) <= maxc THEN {{}}
    ELSE LET ranges == static_bucket_ranges(p, all_peers)
             targets == static_bucket_targets(maxc, static_num_buckets(p, all_peers))
             to_remove == static_bucket_removals(p, current_connected, ranges, targets, 1) IN
         {Range(Take(to_remove, excess))}

\* DistanceOptimizedPeer.optimize_connections: the possible values of to_remove
optimize_connections(p, kp, maxc, all_peers) ==
    LET current_connected == get_connected_peers(kp)
        excess == Cardinality(current_connected) - maxc IN
    IF Cardinality(all_peers) <= 1 THEN {{}}
    ELSE IF Cardinality(current_connected) <= maxc THEN {{}}
    ELSE LET ranges == static_bucket_ranges(p, all_peers)
             targets == static_bucket_targets(maxc, static_num_buckets(p, all_peers))
             to_remove == static_bucket_removals(p, current_connected, ranges, targets, 1)
             remaining_excess == excess - Len(to_remove) IN
         IF remaining_excess > 0
         THEN {Range(to_remove) \cup A :
                 A \in SubsetsOfSize(current_connected \ Range(to_remove), remaining_excess)}
         ELSE {Range(Take(to_remove, excess))}

\* remove_excess_connections with its trigger one connection too late
static_removals_late(p, kp, maxc, all_peers) ==
    IF Cardinality(get_connected_peers(kp)) <= static_soft_max(maxc) + 1 THEN {{}}
    ELSE optimize_connections(p, kp, maxc, all_peers)

\* DistanceOptimizedPeer.remove_excess_connections(all_peers)
static_removals(p, kp, maxc, all_peers) ==
    IF Cardinality(get_connected_peers(kp)) <= static_soft_max(maxc) THEN {{}}
    ELSE optimize_connections(p, kp, maxc, all_peers)

\* ---- ImprovedDistanceOptimizedPeer: prefix-bucketed policy
\* connection_slack = max(2, max_connections // 3)
prefix_slack(maxc) == Max2(2, maxc \div 3)

\* soft_max_connections of ImprovedDistanceOptimizedPeer
prefix_soft_max(maxc) == maxc + prefix_slack(maxc)

RECURSIVE BitLength(_)
\* the number of bits of v (0 for 0)
BitLength(v) == IF v = 0 THEN 0 ELSE 1 + BitLength(v \div 2)

\* ImprovedDistanceOptimizedPeer._count_leading_zeros, 32-bit
count_leading_zeros(v) == IF v = 0 THEN 32 ELSE 32 - BitLength(v)

\* the prefix bucket of a peer: min(leading zeros of the XOR distance, 31)
prefix_bucket(p, q) == Min2(count_leading_zeros(xor_distance(p, q)), 31)

\* weights of calculate_routing_distribution
prefix_weight(b) == IF b >= 24 THEN 4 ELSE IF b >= 16 THEN 3 ELSE IF b >= 8 THEN 2 ELSE 1

RECURSIVE SumOver(_, _)
\* the sum of f over the set S
SumOver(f, S) == IF S = {} THEN 0 ELSE LET x == CHOOSE y \in S : TRUE IN f[x] + SumOver(f, S \ {x})

\* target_distribution of calculate_routing_distribution, over the non-empty buckets
routing_distribution(p, maxc, all_peers) ==
    LET non_empty_buckets == {prefix_bucket(p, q) : q \in all_peers \ {p}}
        weights == [b \in non_empty_buckets |-> prefix_weight(b)]
        total_weight == SumOver(weights, non_empty_buckets)
        first == [b \in non_empty_buckets |-> Max2(1, (weights[b] * maxc) \div total_weight)]
        total_assigned == SumOver(first, non_empty_buckets) IN
    IF total_assigned > maxc
    THEN [b \in non_empty_buckets |-> Max2(1, (first[b] * maxc) \div total_assigned)]
    ELSE first

\* to_remove of optimize_connections_improved after the loop over the buckets
prefix_bucket_removals(p, connected, targets) ==
    UNION {LET current_peers == {c \in connected : prefix_bucket(p, c) = b}
               current_count == Cardinality(current_peers) IN
           IF current_count > targets[b]
           THEN Range(Take(FurthestFirst(current_peers, p), current_count - targets[b]))
           ELSE {} : b \in DOMAIN targets}

\* ImprovedDistanceOptimizedPeer.optimize_connections_improved: the possible values of to_remove
optimize_connections_improved(p, kp, maxc, all_peers) ==
    LET current_connected == get_connected_peers(kp)
        excess == Cardinality(current_connected) - maxc IN
    IF Cardinality(current_connected) <= maxc THEN {{}}
    ELSE IF all_peers \ {p} = {} THEN SubsetsOfSize(current_connected, excess)
    ELSE LET targets == routing_distribution(p, maxc, all_peers)
             to_remove == prefix_bucket_removals(p, current_connected \ {p}, targets)
             current_after_removal == current_connected \ to_remove
             additional_needed == Cardinality(current_after_removal) - maxc IN
         IF additional_needed > 0
         THEN {to_remove \cup A : A \in SubsetsOfSize(current_after_removal, additional_needed)}
         ELSE {to_remove}

\* remove_excess_connections triggered at max_connections, without the slack
prefix_removals_no_slack(p, kp, maxc, all_peers) ==
    IF Cardinality(get_connected_peers(kp)) <= maxc THEN {{}}
    ELSE optimize_connections_improved(p, kp, maxc, all_peers)

\* ImprovedDistanceOptimizedPeer.remove_excess_connections(all_peers)
prefix_removals(p, kp, maxc, all_peers) ==
    IF Cardinality(get_connected_peers(kp)) <= prefix_soft_max(maxc) THEN {{}}
    ELSE optimize_connections_improved(p, kp, maxc, all_peers)

\* ---- GradientPeer: gradient ring-bucketed policy
\* a ring distance that always goes around the ring
ring_distance_wrap_only(bits, a, b) ==
    2 ^ bits - (IF a >= b THEN a - b ELSE b - a)

\* GradientPeer._ring_distance
ring_distance(bits, a, b) ==
    LET direct_distance == IF a >= b THEN a - b ELSE b - a
        wrap_distance == 2 ^ bits - direct_distance IN
    Min2(direct_distance, wrap_distance)

\* max_distance_classes = int(log2(address_space_size)) + 1
max_distance_classes(bits) == bits + 1

\* GradientPeer._get_distance_class: min(int(log2(distance)) + 1, max_distance_classes - 1)
get_distance_class(bits, distance) ==
    IF distance = 0 THEN 0 ELSE Min2(BitLength(distance), max_distance_classes(bits) - 1)

\* PeerInfo.distance_class of the record p keeps of q
distance_class(bits, p, q) == get_distance_class(bits, ring_distance(bits, p, q))

RECURSIVE distance_budgets_from(_, _, _)
\* the loop of _calculate_distance_budgets from class c on, with the budget that remains
distance_budgets_from(c, last, remaining_budget) ==
    LET allocation == IF c = 0 THEN Max2(1, remaining_budget \div 3)
                      ELSE Max2(1, remaining_budget \div (2 ^ c))
        left == Max2(0, remaining_budget - allocation) IN
    IF c > last THEN <<>>
    ELSE <<Min2(allocation, remaining_budget)>> \o
         (IF left = 0 THEN <<>> ELSE distance_budgets_from(c + 1, last, left))

\* GradientPeer._calculate_distance_budgets; the budget of class c is entry c + 1
calculate_distance_budgets(bits, maxc) ==
    distance_budgets_from(0, max_distance_classes(bits) - 1, maxc * 5)

\* self.distance_class_budgets.get(distance_class, 1)
budget_for_class(bits, maxc, c) ==
    LET budgets == calculate_distance_budgets(bits, maxc) IN
    IF c + 1 <= Len(budgets) THEN budgets[c + 1] ELSE 1

RECURSIVE gradient_class_removals(_, _, _, _, _, _)
\* the loop of GradientPeer.remove_excess_connections from class c downwards:
\* the possible values of to_remove, given the excess that is still to remove
gradient_class_removals(bits, p, connected, maxc, c, excess_count) ==
    IF c < 0 \/ excess_count <= 0 THEN {{}}
    ELSE LET peers_in_class == {q \in connected : distance_class(bits, p, q) = c}
             budget == budget_for_class(bits, maxc, c)
             remove_count == IF Cardinality(peers_in_class) > budget
                             THEN Min2(Cardinality(peers_in_class) - budget, excess_count)
                             ELSE 0 IN
         {A \cup B : A \in SubsetsOfSize(peers_in_class, remove_count),
                     B \in gradient_class_removals(bits, p, connected, maxc, c - 1,
                                                   excess_count - remove_count)}

\* GradientPeer.remove_excess_connections: the possible values of to_remove
gradient_removals(bits, p, kp, maxc) ==
    LET connected == get_connected_peers(kp) IN
    IF Cardinality(connected) <= maxc THEN {{}}
    ELSE gradient_class_removals(bits, p, connected, maxc, max_distance_classes(bits) - 1,
                                 Cardinality(connected) - maxc)

\* remove_excess_connections of the simulator's peer class
removals(pol, bits, p, kp, maxc, all_peers) ==
    CASE pol = "uniform" -> uniform_removals(kp, maxc)
      [] pol = "static" -> static_removals(p, kp, maxc, all_peers)
      [] pol = "prefix" -> prefix_removals(p, kp, maxc, all_peers)
      [] pol = "gradient" -> gradient_removals(bits, p, kp, maxc)

\* Phase 3, third statement: peer.remove_excess_connections
RemoveExcess ==
    /\ pc = "remove"
    /\ LET p == order[idx] IN
       \E to_remove \in removals(policy, address_space_bits, p, known_peers[p], max_connections[p], peers) :
          known_peers' = [known_peers EXCEPT ![p] = delete_peers(@, to_remove)]
    /\ IF idx < N THEN idx' = idx + 1 /\ pc' = "process" ELSE idx' = 1 /\ pc' = "record"
    /\ UNCHANGED <<entry_times, simulation_rounds,
                   call, order, connected_set, candidate_set, policy, address_space_bits, max_connections,
                   pending_invites, round_number, invites_to_send, lookup, drained, round_start>>

\* entry_times that is overwritten in every round in which the peer is connected
record_round_latest(times, round_num, kpAll) ==
    LET connected_now == {c \in candidate_set \cap peers : get_connected_peers(kpAll[c]) # {}} IN
    [c \in (DOMAIN times) \cup connected_now |-> IF c \in connected_now THEN round_num ELSE times[c]]

\* SimulationMetrics.record_round: self.entry_times after the call
record_round(times, round_num, kpAll) ==
    LET connected_now == {c \in candidate_set \cap peers : get_connected_peers(kpAll[c]) # {}} IN
    [c \in (DOMAIN times) \cup connected_now |-> IF c \in DOMAIN times THEN times[c] ELSE round_num]

\* the end of simulate_round: metrics.record_round, then round_number += 1
EndRound ==
    /\ pc = "record"
    /\ entry_times' = record_round(entry_times, round_number, known_peers)
    /\ round_number' = round_number + 1
    /\ pc' = "phase1"
    /\ idx' = 1
    /\ round_start' = known_peers
    /\ UNCHANGED <<simulation_rounds, call, order, connected_set, candidate_set, policy, address_space_bits,
                   max_connections, known_peers, pending_invites, invites_to_send, lookup, drained>>

Next == Discover \/ Dispatch \/ ProcessInvites \/ Maintain \/ RemoveExcess \/ EndRound

Spec == Init /\ [][Next]_vars

\* The scenario of one joining peer and fully connected established peers whose
\* bound is one below their bootstrap degree (6 peers with bound 4 in the
\* scenario), with the ids 0 .. NumEstablished - 1 established and the next id
\* joining.
InitScenario ==
    \E maxc \in {NumEstablished - 2} :
        /\ InitNetwork("uniform", AddressBits, 0 .. NumEstablished - 1,
                       NumEstablished .. NumEstablished + NumJoining - 1, maxc, InitialIdentified,
                       {Ascending(0 .. NumEstablished - 1)},
                       {Ascending(NumEstablished .. NumEstablished + NumJoining - 1)})
        /\ pc = "phase1"
        /\ idx = 1

SpecScenario == InitScenario /\ [][Next]_vars

\* the scenario's network under every bound up to the bootstrap degree + 1, run for
\* one round more
InitLongRun ==
    /\ \E maxc \in 1 .. NumEstablished :
          InitNetworkRounds("uniform", AddressBits, 0 .. NumEstablished - 1,
                         NumEstablished .. NumEstablished + NumJoining - 1, maxc,
                         InitialIdentified, {Ascending(0 .. NumEstablished - 1)},
                         {Ascending(NumEstablished .. NumEstablished + NumJoining - 1)}, MaxRound + 1)
    /\ pc = "phase1"
    /\ idx = 1

SpecLongRun == InitLongRun /\ [][Next]_vars

\* run_simulation: simulate_round is called again as long as rounds remain
SpecScenarioLive == InitScenario /\ [][Next]_vars /\ WF_vars(Next)

\* the same rounds with each of the three peer classes that share simulate_round
SpecPolicies == InitPolicies /\ [][Next]_vars

\* NetworkSimulator(config) with initial_identified_peers = 0: the joining peer
\* starts with no relationship record at all
InitIsolated ==
    \E est \in SUBSET IdsOf(AddressBits) : \E cand \in SUBSET (IdsOf(AddressBits) \ est) :
    \E maxc \in 1 .. MaxConnections :
        /\ Cardinality(est) = NumEstablished
        /\ Cardinality(cand) = NumJoining
        /\ InitNetwork("uniform", AddressBits, est, cand, maxc, 0, Perms(est), Perms(cand))
        /\ pc = "phase1"
        /\ idx = 1

SpecIsolated == InitIsolated /\ [][Next]_vars

\* A bootstrapped network one of whose established peers is no longer in the
\* registry, while the other peers still hold the records the bootstrap gave them.
InitDeparted ==
    \E est \in SUBSET IdsOf(AddressBits) : \E cand \in SUBSET (IdsOf(AddressBits) \ est) :
    \E maxc \in 1 .. MaxConnections : \E departed \in est :
        /\ Cardinality(est) = NumEstablished
        /\ Cardinality(cand) = NumJoining
        /\ \E oe \in Perms(est \ {departed}) : \E oc \in Perms(cand) : order = oe \o oc
        /\ connected_set = est \ {departed}
        /\ candidate_set = cand
        /\ policy = "uniform"
        /\ address_space_bits = AddressBits
        /\ max_connections = [p \in (est \ {departed}) \cup cand |-> maxc]
        /\ \E ident \in [cand -> SUBSET est] :
              /\ \A c \in cand : Cardinality(ident[c]) = Min2(InitialIdentified, Cardinality(est))
              /\ known_peers = [p \in (est \ {departed}) \cup cand |->
                    IF p \in est
                    THEN [q \in est \ {p} |-> PeerInfo(CONNECTED, 0)]
                    ELSE [q \in ident[p] |-> PeerInfo(IDENTIFIED, NeverHeard)]]
        /\ pending_invites = [p \in (est \ {departed}) \cup cand |-> <<>>]
        /\ round_number = 0
        /\ invites_to_send = <<>>
        /\ lookup = <<>>
        /\ drained = <<>>
        /\ round_start = known_peers
        /\ entry_times = <<>>
        /\ simulation_rounds = MaxRound
        /\ call = <<>>
        /\ pc = "phase1"
        /\ idx = 1

SpecDeparted == InitDeparted /\ [][Next]_vars

\* ------------------------------------------------- one eviction, every policy
\* A bootstrapped network of any size, its registry just before the first
\* remove_excess_connections of one established peer: through phase 1, phase 2
\* and the drain of round 0 an established peer's Connected set is the one the
\* bootstrap gave it (no record becomes Connected before round 1).
InitEvict ==
    \E est \in SUBSET IdsOf(AddressBits + 1) : \E cand \in SUBSET (IdsOf(AddressBits + 1) \ est) :
    \E pol \in {"uniform", "static", "prefix", "gradient"} : \E maxc \in 1 .. MaxConnections :
        /\ Cardinality(est) >= 2
        /\ Cardinality(cand) <= NumJoining + 1
        /\ InitNetwork(pol, AddressBits + 1, est, cand, maxc, 0, {Ascending(est)}, {Ascending(cand)})
        /\ pc = "remove"
        /\ idx \in 1 .. Cardinality(est)

SpecEvict == InitEvict /\ [][RemoveExcess]_vars

\* ------------------------------------------- direct calls of the bucketed policies
\* the random fallback of remove_excess_connections when no list of peer ids is given
fallback_removals(kp, soft_max, maxc) ==
    LET connected == get_connected_peers(kp) IN
    IF Cardinality(connected) <= soft_max THEN {{}}
    ELSE SubsetsOfSize(connected, Cardinality(connected) - maxc)

\* remove_excess_connections(all_peers) of the two bucketed peer classes; has_list
\* is FALSE for all_peers=None
remove_excess_connections(pol, p, kp, maxc, has_list, all_peers) ==
    IF pol = "static"
    THEN IF has_list THEN static_removals(p, kp, maxc, all_peers)
         ELSE fallback_removals(kp, static_soft_max(maxc), maxc)
    ELSE IF has_list THEN prefix_removals(p, kp, maxc, all_peers)
         ELSE fallback_removals(kp, prefix_soft_max(maxc), maxc)

\* optimize_connections(all_peers) / optimize_connections_improved(all_peers)
optimize(pol, p, kp, maxc, all_peers) ==
    IF pol = "static" THEN optimize_connections(p, kp, maxc, all_peers)
    ELSE optimize_connections_improved(p, kp, maxc, all_peers)

\* the lists of peer ids given to a direct call: the registry's ids, and every
\* list of at most MaxListLen ids of the address space
PeerLists ==
    {L \in SUBSET IdsOf(address_space_bits) : Cardinality(L) <= MaxListLen \/ L = peers}

\* peer.remove_excess_connections(all_peers), called on a bootstrapped peer with
\* any list of ids of the address space, or with no list
CallRemoveExcess ==
    /\ pc = "call"
    /\ call = <<>>
    /\ LET p == order[idx]
           kp == known_peers[p] IN
       \E has_list \in BOOLEAN : \E all_peers \in PeerLists :
       \E to_remove \in remove_excess_connections(policy, p, kp, max_connections[p], has_list, all_peers) :
          /\ has_list \/ all_peers = {}
          /\ known_peers' = [known_peers EXCEPT ![p] = delete_peers(@, to_remove)]
          /\ call' = <<[fn |-> "remove_excess_connections", peer |-> p, has_list |-> has_list,
                        all_peers |-> all_peers, before |-> kp, to_remove |-> to_remove]>>
    /\ UNCHANGED <<entry_times, simulation_rounds,
                   order, connected_set, candidate_set, policy, address_space_bits, max_connections,
                   pending_invites, round_number, invites_to_send, pc, idx, lookup, drained, round_start>>

\* peer.optimize_connections(all_peers) (optimize_connections_improved for the
\* prefix policy), called on a bootstrapped peer with any list of ids: it returns
\* the peers to remove and deletes nothing itself
CallOptimize ==
    /\ pc = "call"
    /\ call = <<>>
    /\ LET p == order[idx]
           kp == known_peers[p] IN
       \E all_peers \in PeerLists :
       \E to_remove \in optimize(policy, p, kp, max_connections[p], all_peers) :
          call' = <<[fn |-> "optimize_connections", peer |-> p, has_list |-> TRUE,
                     all_peers |-> all_peers, before |-> kp, to_remove |-> to_remove]>>
    /\ UNCHANGED <<entry_times, simulation_rounds,
                   order, connected_set, candidate_set, policy, address_space_bits, max_connections,
                   known_peers, pending_invites, round_number, invites_to_send, pc, idx, lookup,
                   drained, round_start>>

\* a bootstrapped network of established peers built with one of the two bucketed
\* peer classes, and the peer that is about to be called
InitCall ==
    \E est \in SUBSET IdsOf(AddressBits + 1) :
    \E pol \in {"static", "prefix"} : \E maxc \in 1 .. MaxConnections :
        /\ Cardinality(est) >= 2
        /\ InitNetwork(pol, AddressBits + 1, est, {}, maxc, 0, {Ascending(est)}, {<<>>})
        /\ pc = "call"
        /\ idx \in 1 .. Cardinality(est)

SpecCall == InitCall /\ [][CallRemoveExcess \/ CallOptimize]_vars

\* ------------------------------------------------------- one walk, call by call
\* a walk that never looks at its hop budget
hop_limit_ignored(max_hops, start_peer_id) == start_peer_id \notin peers

\* the first test of _recursive_search_with_hop_limit
hop_limit_reached(max_hops, start_peer_id) == max_hops <= 0 \/ start_peer_id \notin peers

\* the frame of a walk: the arguments of the current call of
\* _recursive_search_with_hop_limit, the nodes called so far, and its result
WalkFrame(start, target, node, max_hops, path, done, returned) ==
    [fn |-> "_recursive_search_with_hop_limit", start |-> start, target |-> target,
     start_peer_id |-> node, max_hops |-> max_hops, path |-> path, done |-> done,
     returned |-> returned]

\* simulate_mapping_request starts a walk: the call with max_hops=10
StartWalk ==
    /\ pc = "walk"
    /\ call = <<>>
    /\ \E start \in IdsOf(address_space_bits) : \E target \in IdsOf(address_space_bits) :
          call' = <<WalkFrame(start, target, start, MaxHops, <<start>>, FALSE, NoPeer)>>
    /\ UNCHANGED <<entry_times, simulation_rounds,
                   order, connected_set, candidate_set, policy, address_space_bits, max_connections,
                   known_peers, pending_invites, round_number, invites_to_send, pc, idx, lookup,
                   drained, round_start>>

\* One call of _recursive_search_with_hop_limit.  The Connected graph is the
\* walk's input: the Connected relationships of a peer are drawn when the walk
\* first reads them (a walk reads no peer twice).
SearchCall ==
    /\ pc = "walk"
    /\ call # <<>>
    /\ ~call[1].done
    /\ LET f == call[1]
           node == f.start_peer_id
           target == f.target IN
       IF hop_limit_reached(f.max_hops, node)
       THEN /\ call' = <<[f EXCEPT !.done = TRUE, !.returned = node]>>
            /\ UNCHANGED known_peers
       ELSE \E connected_peers \in SUBSET (peers \ {node}) :
              /\ Cardinality(connected_peers) <= WalkDegree
              /\ known_peers' = [known_peers EXCEPT ![node] =
                                    [q \in connected_peers |-> PeerInfo(CONNECTED, 0)]]
              /\ IF connected_peers = {}
                 THEN call' = <<[f EXCEPT !.done = TRUE, !.returned = node]>>
                 ELSE LET closest_connected == ClosestTo(connected_peers, target) IN
                      IF xor_distance(node, target) <= xor_distance(closest_connected, target)
                      THEN call' = <<[f EXCEPT !.done = TRUE, !.returned = node]>>
                      ELSE call' = <<[f EXCEPT !.start_peer_id = closest_connected,
                                               !.max_hops = f.max_hops - 1,
                                               !.path = Append(f.path, closest_connected)]>>
    /\ UNCHANGED <<entry_times, simulation_rounds,
                   order, connected_set, candidate_set, policy, address_space_bits, max_connections,
                   pending_invites, round_number, invites_to_send, pc, idx, lookup, drained,
                   round_start>>

\* a registry of WalkPeers peers (ids 0 .. WalkPeers - 1 of the address space)
\* whose relationships are not drawn yet
InitWalk ==
    /\ order = Ascending(0 .. WalkPeers - 1)
    /\ connected_set = 0 .. WalkPeers - 1
    /\ candidate_set = {}
    /\ policy = "uniform"
    /\ address_space_bits = WalkBits
    /\ max_connections = [p \in connected_set |-> WalkDegree]
    /\ known_peers = [p \in connected_set |-> [q \in {} |-> PeerInfo(CONNECTED, 0)]]
    /\ pending_invites = [p \in connected_set |-> <<>>]
    /\ round_number = 0
    /\ invites_to_send = <<>>
    /\ lookup = <<>>
    /\ drained = <<>>
    /\ round_start = known_peers
    /\ entry_times = <<>>
    /\ simulation_rounds = MaxRound
    /\ call = <<>>
    /\ pc = "walk"
    /\ idx = 1

SpecWalk == InitWalk /\ [][StartWalk \/ SearchCall]_vars

\* ------------------------------------------------------------- construction
\* the SimulationConfig values a simulator is constructed with
Configs ==
    [connected_set_size : 0 .. MaxConfigPeers, candidate_set_size : 0 .. NumJoining,
     max_connections_per_peer : 0 .. MaxConnections,
     initial_identified_peers : 0 .. InitialIdentified, address_space_bits : 1 .. AddressBits]

\* the frame of NetworkSimulator.__init__: self.config, the statement of
\* _initialize_network that runs next, and the set of _generate_peer_ids
ConstructFrame(config, stage, generated) ==
    [fn |-> "__init__", config |-> config, stage |-> stage, generated |-> generated]

\* NetworkSimulator.__init__ up to the call of _initialize_network: no peer yet
InitConstruct ==
    \E config \in Configs :
        /\ call = <<ConstructFrame(config, "connected_ids", {})>>
        /\ order = <<>>
        /\ connected_set = {}
        /\ candidate_set = {}
        /\ policy = "uniform"
        /\ address_space_bits = config.address_space_bits
        /\ max_connections = <<>>
        /\ known_peers = <<>>
        /\ pending_invites = <<>>
        /\ round_number = 0
        /\ invites_to_send = <<>>
        /\ lookup = <<>>
        /\ drained = <<>>
        /\ round_start = <<>>
        /\ entry_times = <<>>
        /\ simulation_rounds = MaxRound
        /\ pc = "construct"
        /\ idx = 1

\* the count argument of the running _generate_peer_ids call
generate_count(f) ==
    IF f.stage = "connected_ids" THEN f.config.connected_set_size
    ELSE f.config.candidate_set_size

\* a test that keeps a drawn id whenever it was not generated by this call
keeps_peer_id_ignoring_exclude(peer_id, exclude_set, generated) == peer_id \notin generated

\* _generate_peer_ids: if peer_id not in exclude_set and peer_id not in generated
keeps_peer_id(peer_id, exclude_set, generated) ==
    peer_id \notin exclude_set /\ peer_id \notin generated

\* _generate_peer_ids, one iteration of its while loop: an id is drawn and kept
\* unless it is excluded or already generated
GeneratePeerId ==
    /\ pc = "construct"
    /\ LET f == call[1] IN
       /\ Cardinality(f.generated) < generate_count(f)
       /\ \E peer_id \in IdsOf(address_space_bits) :
             call' = <<[f EXCEPT !.generated =
                          IF keeps_peer_id(peer_id, connected_set, f.generated)
                          THEN f.generated \cup {peer_id} ELSE f.generated]>>
    /\ UNCHANGED <<entry_times, simulation_rounds,
                   order, connected_set, candidate_set, policy, address_space_bits, max_connections,
                   known_peers, pending_invites, round_number, invites_to_send, pc, idx, lookup,
                   drained, round_start>>

\* _initialize_network, first half: _generate_peer_ids has returned the
\* established ids, each gets a Peer that holds all the others as Connected
BuildConnected ==
    /\ pc = "construct"
    /\ LET f == call[1] IN
       /\ f.stage = "connected_ids"
       /\ Cardinality(f.generated) >= generate_count(f)
       /\ order' \in Perms(f.generated)
       /\ connected_set' = f.generated
       /\ max_connections' = [p \in f.generated |-> f.config.max_connections_per_peer]
       /\ known_peers' = [p \in f.generated |->
                            [q \in f.generated \ {p} |-> PeerInfo(CONNECTED, 0)]]
       /\ pending_invites' = [p \in f.generated |-> <<>>]
       /\ call' = <<ConstructFrame(f.config, "candidate_ids", {})>>
    /\ UNCHANGED <<entry_times, simulation_rounds,
                   candidate_set, policy, address_space_bits, round_number, invites_to_send, pc,
                   idx, lookup, drained, round_start>>

\* _initialize_network, second half: the joining ids are generated, each gets a
\* Peer with sampled established peers as Identified; __init__ returns
BuildCandidates ==
    /\ pc = "construct"
    /\ LET f == call[1] IN
       /\ f.stage = "candidate_ids"
       /\ Cardinality(f.generated) >= generate_count(f)
       /\ \E oc \in Perms(f.generated) : order' = order \o oc
       /\ candidate_set' = f.generated
       /\ max_connections' = [p \in connected_set \cup f.generated |->
                                 f.config.max_connections_per_peer]
       /\ \E ident \in [f.generated -> SUBSET connected_set] :
             /\ \A c \in f.generated :
                   Cardinality(ident[c]) =
                      Min2(f.config.initial_identified_peers, Cardinality(connected_set))
             /\ known_peers' = [p \in connected_set \cup f.generated |->
                   IF p \in connected_set THEN known_peers[p]
                   ELSE [q \in ident[p] |-> PeerInfo(IDENTIFIED, NeverHeard)]]
       /\ pending_invites' = [p \in connected_set \cup f.generated |-> <<>>]
       /\ call' = <<ConstructFrame(f.config, "constructed", {})>>
    /\ round_start' = known_peers'
    /\ pc' = "phase1"
    /\ UNCHANGED <<entry_times, simulation_rounds,
                   connected_set, policy, address_space_bits, round_number, invites_to_send, idx,
                   lookup, drained>>

SpecConstruct == InitConstruct /\ [][GeneratePeerId \/ BuildConnected \/ BuildCandidates]_vars

\* ------------------------------------------- the round of GradientNetworkSimulator
\* min(S, key=ring distance to target): the ids of S at the least distance. min
\* returns the first of them in the order of the list, which follows the order in
\* which the records were inserted; every one of them is considered.
RingClosest(bits, S, target) ==
    {q \in S : \A x \in S : ring_distance(bits, q, target) <= ring_distance(bits, x, target)}

\* the candidates of GradientPeer.find_closest_peer_to_target (exclude_states empty):
\* the records of the target's distance class, else of the first non-empty class
\* among the offsets 1, -1, 2, -2, else every record
gradient_candidates(bits, p, kp, target) ==
    LET target_distance_class == distance_class(bits, p, target)
        InClass(c) == {q \in DOMAIN kp : distance_class(bits, p, q) = c}
        offsets == <<1, -1, 2, -2>>
        Usable(i) == /\ 0 <= target_distance_class + offsets[i]
                     /\ target_distance_class + offsets[i] < max_distance_classes(bits)
                     /\ InClass(target_distance_class + offsets[i]) # {}
        usable == {i \in 1 .. 4 : Usable(i)} IN
    IF InClass(target_distance_class) # {} THEN InClass(target_distance_class)
    ELSE IF usable # {}
         THEN InClass(target_distance_class + offsets[CHOOSE i \in usable : \A j \in usable : i <= j])
         ELSE DOMAIN kp

\* GradientPeer.find_closest_peer_to_target: the possible results
gradient_find_closest(bits, p, kp, target) ==
    IF gradient_candidates(bits, p, kp, target) = {} THEN {NoPeer}
    ELSE RingClosest(bits, gradient_candidates(bits, p, kp, target), target)

\* peer.distance_classes[c]: the Connected records of distance class c
\* (_update_distance_class_membership runs after every change of a state)
distance_classes(bits, p, kp, c) ==
    {q \in get_connected_peers(kp) : distance_class(bits, p, q) = c}

\* available_peers of the first class among the target's class, the next and the
\* previous one that is a key of peer.distance_classes and has a peer to add
gradient_available(bits, p, kp, target, closest_peer_id) ==
    LET target_distance_class == distance_class(bits, p, target)
        offsets == <<0, 1, -1>>
        Available(i) == {pid \in distance_classes(bits, p, kp, target_distance_class + offsets[i]) :
                            pid # closest_peer_id /\ pid \in peers}
        usable == {i \in 1 .. 3 : Available(i) # {}} IN
    IF usable = {} THEN {} ELSE Available(CHOOSE i \in usable : \A j \in usable : i <= j)

RECURSIVE gradient_recursive_search(_, _, _, _, _)
\* GradientNetworkSimulator._gradient_recursive_search: the possible terminals
gradient_recursive_search(bits, kpAll, start_peer_id, target, max_hops) ==
    IF max_hops <= 0 \/ start_peer_id \notin peers THEN {start_peer_id}
    ELSE LET connected_peers == get_connected_peers(kpAll[start_peer_id]) IN
         IF connected_peers = {} THEN {start_peer_id}
         ELSE UNION {IF ring_distance(bits, start_peer_id, target) <=
                        ring_distance(bits, closest_connected, target)
                     THEN {start_peer_id}
                     ELSE gradient_recursive_search(bits, kpAll, closest_connected, target, max_hops - 1) :
                     closest_connected \in RingClosest(bits, connected_peers, target)}

\* the possible terminals of the walks from the starting points, in walk order
gradient_terminals(bits, kpAll, starting_points, target) ==
    {t \in [1 .. Len(starting_points) -> peers] :
        \A i \in 1 .. Len(starting_points) :
            t[i] \in gradient_recursive_search(bits, kpAll, starting_points[i], target, MaxHops)}

\* best_response of GradientNetworkSimulator.simulate_mapping_request for the
\* terminals of its walks: the possible results
gradient_best_response(bits, starting_points, terminals, target) ==
    LET responses_kept == {t \in Range(terminals) : Truthy(t)} IN
    IF starting_points = <<>> \/ responses_kept = {} THEN {NoPeer}
    ELSE RingClosest(bits, responses_kept, target)

\* Phase 1 of GradientNetworkSimulator.simulate_round, one iteration
GradientDiscover ==
    /\ pc = "phase1"
    /\ policy = "gradient"
    /\ round_number < simulation_rounds
    /\ LET p == order[idx]
           kp == known_peers[p] IN
       \E target \in IdsOf(address_space_bits) :
       \E closest_peer_id \in gradient_find_closest(address_space_bits, p, kp, target) :
       \E available_peers \in {gradient_available(address_space_bits, p, kp, target, closest_peer_id)} :
       \E class_starts \in Samples(available_peers, Min2(2, Cardinality(available_peers))) :
       \E starting_points \in {(IF Truthy(closest_peer_id) /\ closest_peer_id \in peers
                                THEN <<closest_peer_id>> ELSE <<>>) \o class_starts} :
       \E terminals \in gradient_terminals(address_space_bits, known_peers, starting_points, target) :
       \E discovered \in gradient_best_response(address_space_bits, starting_points, terminals, target) :
          /\ lookup' = <<[peer |-> p, target |-> target, starting_points |-> starting_points,
                          terminals |-> terminals,
                          result |-> discovered, before |-> kp, queued |-> invites_to_send]>>
          /\ IF acts_on(discovered, p)
             THEN /\ known_peers' = [known_peers EXCEPT ![p] = discovery_transition(kp, discovered, round_number)]
                  /\ invites_to_send' = IF discovery_invites(kp, discovered)
                                        THEN Append(invites_to_send, <<p, discovered>>)
                                        ELSE invites_to_send
             ELSE UNCHANGED <<known_peers, invites_to_send>>
    /\ IF idx < N THEN idx' = idx + 1 /\ pc' = pc ELSE idx' = 1 /\ pc' = "phase2"
    /\ UNCHANGED <<entry_times, simulation_rounds,
                   call, order, connected_set, candidate_set, policy, address_space_bits, max_connections,
                   pending_invites, round_number, drained, round_start>>

\* selected_peers of the gradient maintenance: the first Connected peer of the
\* list and the first one after it of another distance class, else a random
\* second one. The list follows the insertion order of the records; every order
\* is considered.
gradient_selected_peers(bits, p, connected_peers) ==
    LET pairs == {S \in SUBSET connected_peers : Cardinality(S) = 2}
        mixed == {S \in pairs : \E a \in S : \E c \in S :
                     distance_class(bits, p, a) # distance_class(bits, p, c)} IN
    IF mixed # {} THEN mixed ELSE pairs

\* Phase 3 of GradientNetworkSimulator.simulate_round, second statement
GradientMaintain ==
    /\ pc = "maintain"
    /\ policy = "gradient"
    /\ LET p == order[idx]
           connected_peers == get_connected_peers(known_peers[p]) IN
       IF Cardinality(connected_peers) >= 2
       THEN \E selected_peers \in gradient_selected_peers(address_space_bits, p, connected_peers) :
               pending_invites' = maintenance_deliver(pending_invites, selected_peers,
                                                      Invite(p, round_number, "maintenance"))
       ELSE UNCHANGED pending_invites
    /\ pc' = "remove"
    /\ drained' = <<>>
    /\ UNCHANGED <<entry_times, simulation_rounds,
                   call, order, connected_set, candidate_set, policy, address_space_bits, max_connections,
                   known_peers, round_number, invites_to_send, idx, lookup, round_start>>

\* identified_peers of GradientNetworkSimulator._initialize_network for the joining
\* peer c: the close_count established peers nearest on the ring and a sample of
\* distant_count of the others (num_identified >= 1)
gradient_identified(bits, c, est, num_identified, identified_peers) ==
    LET num == Min2(num_identified, Cardinality(est))
        close_count == Max2(1, (num * 2) \div 3)
        distant_count == num - close_count IN
    \E close \in SubsetsOfSize(est, close_count) :
       /\ \A x \in close : \A y \in est \ close : ring_distance(bits, c, x) <= ring_distance(bits, c, y)
       /\ \E distant \in SubsetsOfSize(est \ close, distant_count) : identified_peers = close \cup distant

\* the ids drawn for the established peers of the gradient simulator: three ids of
\* the space of AddressBits + 1 bits, among them id 0 or not, that put two peers
\* in one distance class of the third
GradientEstablished == {{1, 3, 4}, {0, 2, 5}}

\* GradientNetworkSimulator(config) after construction
InitGradient ==
    \E est \in GradientEstablished : \E cand \in SUBSET (IdsOf(AddressBits + 1) \ est) :
    \E maxc \in 1 .. MaxConnections :
        /\ Cardinality(cand) = NumJoining
        /\ InitNetwork("gradient", AddressBits + 1, est, cand, maxc, InitialIdentified,
                       {Ascending(est)}, {Ascending(cand)})
        /\ \A c \in cand : gradient_identified(AddressBits + 1, c, est, InitialIdentified,
                                               DOMAIN known_peers[c])
        /\ pc = "phase1"
        /\ idx = 1

\* the simulator of any of the four peer classes after construction
InitAnyPolicy ==
    \/ \E pol \in {"uniform", "static", "prefix"} : \E est \in SUBSET IdsOf(AddressBits) :
       \E cand \in SUBSET (IdsOf(AddressBits) \ est) : \E maxc \in 1 .. MaxConnections :
          /\ Cardinality(est) = NumEstablished
          /\ Cardinality(cand) = NumJoining
          /\ InitNetwork(pol, AddressBits, est, cand, maxc, InitialIdentified,
                         {Ascending(est)}, {Ascending(cand)})
          /\ pc = "phase1"
          /\ idx = 1
    \/ InitGradient

\* simulate_round of the simulator that was built
NextAnyPolicy ==
    \/ (policy # "gradient" /\ Discover)
    \/ GradientDiscover
    \/ Dispatch
    \/ ProcessInvites
    \/ (policy # "gradient" /\ Maintain)
    \/ GradientMaintain
    \/ RemoveExcess
    \/ EndRound

SpecAnyPolicy == InitAnyPolicy /\ [][NextAnyPolicy]_vars

\* ------------------------------------------------------ the distance functions
\* peers of an address space of 1 .. DistanceBits bits, before any call
InitDistance ==
    /\ address_space_bits \in 1 .. DistanceBits
    /\ call = <<>>
    /\ order = <<>>
    /\ connected_set = {}
    /\ candidate_set = {}
    /\ policy = "gradient"
    /\ max_connections = <<>>
    /\ known_peers = <<>>
    /\ pending_invites = <<>>
    /\ round_number = 0
    /\ invites_to_send = <<>>
    /\ lookup = <<>>
    /\ drained = <<>>
    /\ round_start = <<>>
    /\ entry_times = <<>>
    /\ simulation_rounds = MaxRound
    /\ pc = "distance"
    /\ idx = 1

\* a call of a distance function with its arguments and its result
DistanceFrame(fn, peer1_id, peer2_id, result) ==
    [fn |-> fn, peer1_id |-> peer1_id, peer2_id |-> peer2_id, result |-> result]

\* Peer._xor_distance(peer1_id, peer2_id) on two ids of the address space
CallXorDistance ==
    /\ pc = "distance"
    /\ \E a \in IdsOf(address_space_bits) : \E b \in IdsOf(address_space_bits) :
          call' = <<DistanceFrame("_xor_distance", a, b, xor_distance(a, b))>>
    /\ UNCHANGED <<entry_times, simulation_rounds,
                   order, connected_set, candidate_set, policy, address_space_bits, max_connections,
                   known_peers, pending_invites, round_number, invites_to_send, pc, idx, lookup,
                   drained, round_start>>

\* GradientPeer._ring_distance(peer1_id, peer2_id) on two ids of the address space
CallRingDistance ==
    /\ pc = "distance"
    /\ \E a \in IdsOf(address_space_bits) : \E b \in IdsOf(address_space_bits) :
          call' = <<DistanceFrame("_ring_distance", a, b, ring_distance(address_space_bits, a, b))>>
    /\ UNCHANGED <<entry_times, simulation_rounds,
                   order, connected_set, candidate_set, policy, address_space_bits, max_connections,
                   known_peers, pending_invites, round_number, invites_to_send, pc, idx, lookup,
                   drained, round_start>>

SpecDistance == InitDistance /\ [][CallXorDistance \/ CallRingDistance]_vars

\* ------------------------------------------------ the static bucket targets
\* before any call of calculate_optimal_distribution
InitTargets ==
    /\ call = <<>>
    /\ order = <<>>
    /\ connected_set = {}
    /\ candidate_set = {}
    /\ policy = "static"
    /\ address_space_bits = AddressBits
    /\ max_connections = <<>>
    /\ known_peers = <<>>
    /\ pending_invites = <<>>
    /\ round_number = 0
    /\ invites_to_send = <<>>
    /\ lookup = <<>>
    /\ drained = <<>>
    /\ round_start = <<>>
    /\ entry_times = <<>>
    /\ simulation_rounds = MaxRound
    /\ pc = "targets"
    /\ idx = 1

\* DistanceOptimizedPeer.calculate_optimal_distribution of a peer with the given
\* max_connections, called with a list that holds num_others other peers: its
\* bucket_targets
CallOptimalDistribution ==
    /\ pc = "targets"
    /\ \E total_budget \in 1 .. MaxBudget : \E num_others \in 1 .. MaxOthers :
          call' = <<[fn |-> "calculate_optimal_distribution",
                     max_connections |-> total_budget,
                     num_buckets |-> Min2(8, num_others),
                     bucket_targets |-> static_bucket_targets(total_budget, Min2(8, num_others))]>>
    /\ UNCHANGED <<entry_times, simulation_rounds, order, connected_set, candidate_set, policy,
                   address_space_bits, max_connections, known_peers, pending_invites, round_number,
                   invites_to_send, pc, idx, lookup, drained, round_start>>

SpecTargets == InitTargets /\ [][CallOptimalDistribution]_vars

\* ------------------------------------------------ direct calls of process_invites
\* the records a peer can hold of the senders S: for each none, or one in any state,
\* never heard from or heard from in round 0
RecordTables(S) ==
    UNION {[T -> {PeerInfo(st, r) : st \in {IDENTIFIED, PENDING, PROSPECT, CONNECTED},
                                    r \in {NeverHeard, 0}}] : T \in SUBSET S}

\* the inboxes of 1 .. MaxInbox invites of the senders S, sent in round r
Inboxes(S, r) ==
    UNION {[1 .. n -> {Invite(sender, r, "discovery") : sender \in S}] : n \in 1 .. MaxInbox}

\* peer 0 before any call of process_invites
InitDrain ==
    /\ call = <<>>
    /\ order = <<>>
    /\ connected_set = {}
    /\ candidate_set = {}
    /\ policy = "uniform"
    /\ address_space_bits = AddressBits
    /\ max_connections = <<>>
    /\ known_peers = <<>>
    /\ pending_invites = <<>>
    /\ round_number = 1
    /\ invites_to_send = <<>>
    /\ lookup = <<>>
    /\ drained = <<>>
    /\ round_start = <<>>
    /\ entry_times = <<>>
    /\ simulation_rounds = MaxRound
    /\ pc = "drain"
    /\ idx = 1

\* Peer.process_invites(round_num) of a peer with the records "before" and the
\* inbox "inbox": the records after the call
CallProcessInvites ==
    /\ pc = "drain"
    /\ \E before \in RecordTables(1 .. NumSenders) : \E inbox \in Inboxes(1 .. NumSenders, round_number) :
          call' = <<[fn |-> "process_invites", before |-> before, inbox |-> inbox,
                     after |-> process_invites(before, inbox, round_number)]>>
    /\ UNCHANGED <<entry_times, simulation_rounds, order, connected_set, candidate_set, policy,
                   address_space_bits, max_connections, known_peers, pending_invites, round_number,
                   invites_to_send, pc, idx, lookup, drained, round_start>>

SpecDrain == InitDrain /\ [][CallProcessInvites]_vars

\* ------------------------------------------------------------- properties
\* simulate_round has returned at least once and the next round has not begun
RoundReturned == pc = "phase1" /\ idx = 1 /\ round_number >= 1

ConnectedCount(p) == Cardinality(get_connected_peers(known_peers[p]))

\* C1: uniform-random policy: when simulate_round returns, every peer has at most
\* its own max_connections relationships in state Connected.
C1_DegreeBound ==
    (policy = "uniform" /\ RoundReturned) =>
        \A p \in peers : ConnectedCount(p) <= max_connections[p]

\* a round has ended in which an established peer sits at its bound after having
\* lost a bootstrap relationship to eviction
C1_Witness ==
    /\ policy = "uniform"
    /\ RoundReturned
    /\ \E p \in connected_set :
          /\ ConnectedCount(p) = max_connections[p]
          /\ \E q \in connected_set \ {p} : q \notin DOMAIN known_peers[p]
          /\ \E q \in candidate_set : get_peer_state(known_peers[p], q) = CONNECTED

RecordOf(kp, q) == IF q \in DOMAIN kp THEN <<kp[q]>> ELSE <<>>

\* every record except the one of q is the same in kp1 and kp2
SameExcept(kp1, kp2, q) ==
    \A x \in ((DOMAIN kp1) \cup (DOMAIN kp2)) \ {q} : RecordOf(kp1, x) = RecordOf(kp2, x)

\* the last phase-1 iteration acted on a discovery: its lookup returned a
\* registered peer other than the caller
ActedOnDiscovery ==
    /\ lookup # <<>>
    /\ lookup[1].result # NoPeer
    /\ lookup[1].result # lookup[1].peer
    /\ lookup[1].result \in peers

\* C3: self-initiated transition table. When P acts on a discovery of D in round r,
\* P's record of D goes Unknown->Pending, Identified->Pending, Prospect->Connected,
\* or stays Connected with last_heard_from = r; in each of the four cases exactly one
\* invite (P, D) is queued, and no other record of P changes.
C3_SelfInitiated ==
    ActedOnDiscovery =>
        LET P == lookup[1].peer
            D == lookup[1].result
            was == get_peer_state(lookup[1].before, D)
            now == get_peer_state(known_peers[P], D) IN
        was \in {UNKNOWN, IDENTIFIED, PROSPECT, CONNECTED} =>
            /\ was = UNKNOWN => now = PENDING
            /\ was = IDENTIFIED => now = PENDING
            /\ was = PROSPECT => now = CONNECTED
            /\ was = CONNECTED =>
                  now = CONNECTED /\ known_peers[P][D].last_heard_from = round_number
            /\ invites_to_send = Append(lookup[1].queued, <<P, D>>)
            /\ SameExcept(lookup[1].before, known_peers[P], D)

\* a peer has just turned a Prospect into a Connected relationship by discovering it
C3_Witness ==
    /\ ActedOnDiscovery
    /\ get_peer_state(lookup[1].before, lookup[1].result) = PROSPECT
    /\ get_peer_state(known_peers[lookup[1].peer], lookup[1].result) = CONNECTED

\* the reactive table of the claims, one invite
ReactiveTable(st) ==
    CASE st = PENDING -> CONNECTED
      [] st = IDENTIFIED -> PROSPECT
      [] st = UNKNOWN -> PROSPECT
      [] st = CONNECTED -> CONNECTED
      [] OTHER -> st

RECURSIVE ReactiveTableTimes(_, _)
\* the reactive table applied for n invites of the same sender
ReactiveTableTimes(st, n) == IF n = 0 THEN st ELSE ReactiveTableTimes(ReactiveTable(st), n - 1)

\* how many invites of the inbox come from sender S
InvitesFrom(inbox, S) == Cardinality({k \in 1 .. Len(inbox) : inbox[k].sender_id = S})

\* C4: reactive transition table. When R processes an invite from S in round r, R's
\* record of S goes Pending->Connected, Identified->Prospect, Unknown->Prospect (a new
\* record), or stays Connected with last_heard_from = r; an invite touches only R's
\* record of its sender.
C4_Reactive ==
    drained # <<>> =>
        LET R == drained[1].peer
            inbox == drained[1].inbox
            before == drained[1].before IN
        \A S \in IdsOf(address_space_bits) :
            LET n == InvitesFrom(inbox, S)
                was == get_peer_state(before, S)
                now == get_peer_state(known_peers[R], S) IN
            IF n = 0 THEN RecordOf(known_peers[R], S) = RecordOf(before, S)
            ELSE /\ now = ReactiveTableTimes(was, n)
                 /\ was \in {PENDING, IDENTIFIED, UNKNOWN, CONNECTED} =>
                       known_peers[R][S].last_heard_from = round_number
                 /\ was = PROSPECT => RecordOf(known_peers[R], S) = RecordOf(before, S)

\* a drain has just turned a Pending record into a Connected one, and left the
\* record of a peer that sent nothing alone
C4_Witness ==
    /\ drained # <<>>
    /\ \E S \in DOMAIN drained[1].before :
          /\ drained[1].before[S].state = PENDING
          /\ InvitesFrom(drained[1].inbox, S) >= 1
          /\ known_peers[drained[1].peer][S].state = CONNECTED
    /\ \E S \in DOMAIN drained[1].before : InvitesFrom(drained[1].inbox, S) = 0

\* the terminal closest to the target among the walks of the last lookup, none discarded
BestTerminal ==
    IF lookup[1].terminals = <<>> THEN NoPeer
    ELSE ClosestTo(Range(lookup[1].terminals), lookup[1].target)

\* C5: in phase 1 a peer P whose lookup found a registered peer D # P applies the
\* self-initiated transition and queues an invite to D, for every id D of the address
\* space, 0 included; when the lookup found P itself or nothing, P's relationships
\* are unchanged and no invite is queued.  (A Pending record of D has no row in the
\* table: it is left to the claim about Pending records.)
C5_DiscoveryActs ==
    lookup # <<>> =>
        LET P == lookup[1].peer
            D == BestTerminal
            was == get_peer_state(lookup[1].before, D) IN
        IF D # NoPeer /\ D # P /\ D \in peers
        THEN was # PENDING =>
                /\ invites_to_send = Append(lookup[1].queued, <<P, D>>)
                /\ get_peer_state(known_peers[P], D) =
                      (IF was \in {UNKNOWN, IDENTIFIED} THEN PENDING ELSE CONNECTED)
        ELSE /\ invites_to_send = lookup[1].queued
             /\ known_peers[P] = lookup[1].before

\* the inbox a peer has just drained, and the round of the drain
DrainedInbox == IF drained = <<>> THEN <<>> ELSE drained[1].inbox

\* C8: no maintenance invite sent in phase 3 of round r is consumed in round r: the
\* maintenance invites a peer processes were all sent in an earlier round.
C8_MaintenanceNextRound ==
    \A k \in 1 .. Len(DrainedInbox) :
        DrainedInbox[k].kind = "maintenance" => DrainedInbox[k].round_sent < round_number

\* C9: the lookups of phase 1 read the relationships as of the end of the previous
\* round: every lookup returns what it would return on the state simulate_round
\* started from, whatever the peers before it in the registry did in this phase 1.
C9_PhaseBoundaryLookup ==
    lookup # <<>> =>
        lookup[1].result =
            simulate_mapping_request(round_start, lookup[1].starting_points, lookup[1].target)

\* the peer at position j of the registry has drained its inbox and sent its
\* maintenance invites in the current round
HasMaintained(j) ==
    \/ pc = "record"
    \/ pc = "remove" /\ j <= idx
    \/ pc \in {"process", "maintain"} /\ j < idx

\* some record is deleted by this step
DeletesRecord == \E p \in peers : ~((DOMAIN known_peers[p]) \subseteq (DOMAIN known_peers'[p]))

\* C10: phase order: no peer's eviction takes place before every peer has drained
\* its inbox and originated its maintenance invites for that round.
C10_EnforceAfterMaintain ==
    [][DeletesRecord => \A j \in 1 .. N : HasMaintained(j)]_vars

\* the peer whose remove_excess_connections has just run
RemovedPeer == IF pc = "record" THEN order[N] ELSE order[idx - 1]

\* remove_excess_connections has just returned for RemovedPeer
JustRemoved == pc = "record" \/ (pc = "process" /\ idx > 1)

\* C6 as claimed: under the static and the prefix-bucketed policy a peer's Connected
\* count is at most max_connections once its eviction of the round has run.
C6_HardBound ==
    (policy \in {"static", "prefix"} /\ JustRemoved) =>
        ConnectedCount(RemovedPeer) <= max_connections[RemovedPeer]

\* the slack the two bucketed peer classes allow above max_connections
SlackOf(pol, maxc) == IF pol = "static" THEN Max2(2, maxc \div 4) ELSE Max2(2, maxc \div 3)

\* C6, amended: under the static and the prefix-bucketed policy a peer's Connected
\* count is at most max_connections + slack once its eviction of the round has run.
C6_SoftBound ==
    (policy \in {"static", "prefix"} /\ JustRemoved) =>
        ConnectedCount(RemovedPeer) <=
            max_connections[RemovedPeer] + SlackOf(policy, max_connections[RemovedPeer])

\* a static-policy peer that was bootstrapped above its soft limit has evicted
C6_Witness ==
    /\ policy = "static"
    /\ JustRemoved
    /\ Cardinality(connected_set) - 1 >
          max_connections[RemovedPeer] + SlackOf(policy, max_connections[RemovedPeer])
    /\ ConnectedCount(RemovedPeer) < Cardinality(connected_set) - 1

\* C7: gradient policy: after remove_excess_connections a peer has at most
\* max_connections Connected relationships.
C7_GradientBound ==
    (policy = "gradient" /\ JustRemoved) =>
        ConnectedCount(RemovedPeer) <= max_connections[RemovedPeer]

\* s is an initial part of t
IsPrefix(s, t) == Len(s) <= Len(t) /\ SubSeq(t, 1, Len(s)) = s

RECURSIVE AppliedInOrder(_, _, _, _)
\* the relationships after the first k invites of the inbox were applied, one
\* reactive transition each, in arrival order
AppliedInOrder(kp, inbox, r, k) ==
    IF k = 0 THEN kp
    ELSE apply_invite(AppliedInOrder(kp, inbox, r, k - 1), inbox[k], r)

\* C11: every invite in a peer's inbox is consumed exactly once: the drain of
\* phase 3 applies each invite of the inbox once, in arrival order, and leaves the
\* inbox empty; no other step removes or reorders an invite of any inbox.
C11_ConsumedOnce ==
    [][\A p \in peers :
          IF pc = "process" /\ p = order[idx]
          THEN /\ pending_invites'[p] = <<>>
               /\ known_peers'[p] =
                     AppliedInOrder(known_peers[p], pending_invites[p], round_number,
                                    Len(pending_invites[p]))
          ELSE IsPrefix(pending_invites[p], pending_invites'[p])]_vars

\* a peer has just drained an inbox of two invites from different senders, one a
\* discovery invite and one a maintenance invite
C11_Witness ==
    /\ drained # <<>>
    /\ Len(drained[1].inbox) = 2
    /\ drained[1].inbox[1].sender_id # drained[1].inbox[2].sender_id
    /\ drained[1].inbox[1].kind # drained[1].inbox[2].kind
    /\ pending_invites[drained[1].peer] = <<>>

\* C12: uniform-random eviction: with c Connected relationships and bound b, a peer
\* with c > b deletes exactly c - b records, all of them Connected, and is left with
\* exactly b Connected ones; with c <= b it deletes nothing; the records it keeps
\* are unchanged.
C12_UniformExact ==
    [][(pc = "remove" /\ policy = "uniform") =>
          LET p == order[idx]
              connected == get_connected_peers(known_peers[p])
              c == Cardinality(connected)
              b == max_connections[p]
              deleted == (DOMAIN known_peers[p]) \ (DOMAIN known_peers'[p]) IN
          /\ (DOMAIN known_peers'[p]) \subseteq (DOMAIN known_peers[p])
          /\ \A q \in DOMAIN known_peers'[p] : known_peers'[p][q] = known_peers[p][q]
          /\ deleted \subseteq connected
          /\ Cardinality(deleted) = (IF c > b THEN c - b ELSE 0)
          /\ Cardinality(get_connected_peers(known_peers'[p])) = (IF c > b THEN b ELSE c)]_vars

\* an established peer that held a Prospect record beside its Connected ones has
\* evicted down to its bound and still holds the Prospect record
C12_Witness ==
    /\ policy = "uniform"
    /\ JustRemoved
    /\ RemovedPeer \in connected_set
    /\ ConnectedCount(RemovedPeer) = max_connections[RemovedPeer]
    /\ \E q \in connected_set \ {RemovedPeer} : q \notin DOMAIN known_peers[RemovedPeer]
    /\ \E q \in DOMAIN known_peers[RemovedPeer] : known_peers[RemovedPeer][q].state = PROSPECT

\* the Connected count a bootstrapped established peer brings to its first eviction
BootstrapCount == Cardinality(connected_set) - 1

CallConnected == get_connected_peers(call[1].before)

CallKept == CallConnected \ call[1].to_remove

CallBound == max_connections[call[1].peer]

\* the call ran the policy's selection: optimize_connections always does,
\* remove_excess_connections above the soft limit
CallSelects ==
    /\ call # <<>>
    /\ Cardinality(CallConnected) > CallBound
    /\ \/ call[1].fn = "optimize_connections"
       \/ Cardinality(CallConnected) > CallBound + SlackOf(policy, CallBound)

\* C14: after an eviction by the static or the prefix policy on a peer with
\* N > max_connections Connected relationships, given a list of at least two peer
\* ids, the peer has at most max_connections Connected relationships.
C14_BucketedEvictionBound ==
    (CallSelects /\ call[1].has_list /\ Cardinality(call[1].all_peers) >= 2) =>
        Cardinality(CallKept) <= CallBound

\* optimize_connections was called on a static-policy peer one connection above
\* its bound, with a list of two ids that leaves a Connected peer outside every
\* bucket, and returned one peer
C14_Witness ==
    /\ call # <<>>
    /\ policy = "static"
    /\ call[1].fn = "optimize_connections"
    /\ Cardinality(call[1].all_peers) = 2
    /\ ~(CallConnected \subseteq call[1].all_peers)
    /\ Cardinality(CallConnected) = CallBound + 1
    /\ Cardinality(call[1].to_remove) = 1

\* two Connected peers of the called peer fall into the same bucket of the policy
CallSameBucket(q1, q2) ==
    LET p == call[1].peer IN
    IF policy = "static"
    THEN /\ call[1].all_peers \ {p} # {}
         /\ LET ranges == static_bucket_ranges(p, call[1].all_peers)
                b1 == static_bucket_of(xor_distance(p, q1), ranges)
                b2 == static_bucket_of(xor_distance(p, q2), ranges) IN
            b1 # 0 /\ b1 = b2
    ELSE prefix_bucket(p, q1) = prefix_bucket(p, q2)

\* within every bucket, each kept peer is at least as close as each evicted peer
CallClosestKept ==
    \A kept \in CallKept : \A evicted \in CallConnected \ CallKept :
        CallSameBucket(kept, evicted) =>
            xor_distance(call[1].peer, kept) <= xor_distance(call[1].peer, evicted)

\* the per-bucket stage of the selection removes the whole excess by itself, so
\* that no peer is picked at random
CallBucketStageSuffices ==
    LET p == call[1].peer
        L == call[1].all_peers
        excess == Cardinality(CallConnected) - CallBound IN
    IF policy = "static"
    THEN /\ Cardinality(L) >= 2
         /\ Len(static_bucket_removals(p, CallConnected, static_bucket_ranges(p, L),
                    static_bucket_targets(CallBound, static_num_buckets(p, L)), 1)) >= excess
    ELSE /\ L \ {p} # {}
         /\ Cardinality(CallConnected \
                prefix_bucket_removals(p, CallConnected, routing_distribution(p, CallBound, L)))
               <= CallBound

\* C15 as claimed: after an eviction by the static or the prefix policy, for every
\* bucket and every pair (kept, evicted) of peers of that bucket that were Connected
\* before, distance(self, kept) <= distance(self, evicted).
C15_ClosestKept == (CallSelects /\ call[1].has_list) => CallClosestKept

\* C15, amended: the closest-kept rule holds for every eviction in which the
\* per-bucket stage removes the whole excess, that is, whenever no peer is evicted
\* at random (residual excess or fallback).
C15_ClosestKeptBucketStage ==
    (CallSelects /\ call[1].has_list /\ CallBucketStageSuffices) => CallClosestKept

\* a prefix-policy eviction by the bucket stage alone has evicted one peer of a
\* bucket and kept a closer peer of the same bucket
C15_Witness ==
    /\ CallSelects
    /\ call[1].has_list
    /\ policy = "prefix"
    /\ CallBucketStageSuffices
    /\ \E kept \in CallKept : \E evicted \in CallConnected \ CallKept :
          CallSameBucket(kept, evicted)

\* C16: prefix-bucketed eviction keeps long-range reach: every prefix bucket that
\* holds a Connected peer before remove_excess_connections runs still holds one
\* afterwards.
C16_PrefixKeepsReach ==
    (policy = "prefix" /\ JustRemoved /\ round_number = 0) =>
        \A q \in connected_set \ {RemovedPeer} :
            \E k \in get_connected_peers(known_peers[RemovedPeer]) :
                prefix_bucket(RemovedPeer, k) = prefix_bucket(RemovedPeer, q)

\* C17: degenerate-input fallback: when the selection of a bucketed policy runs
\* with a list of fewer than two peer ids, it removes exactly count - max_connections
\* Connected relationships.
C17_DegenerateFallback ==
    (CallSelects /\ call[1].has_list /\ Cardinality(call[1].all_peers) < 2) =>
        /\ call[1].to_remove \subseteq CallConnected
        /\ Cardinality(call[1].to_remove) = Cardinality(CallConnected) - CallBound

\* C18: the lookup of a peer with no relationship record at all has no starting
\* point and returns no result; the phase-1 step of that peer leaves every
\* relationship unchanged and queues no invite.
C18_NoRecordsNoResult ==
    [][(pc = "phase1" /\ DOMAIN known_peers[order[idx]] = {}) =>
          /\ lookup'[1].peer = order[idx]
          /\ lookup'[1].starting_points = <<>>
          /\ lookup'[1].result = NoPeer
          /\ known_peers' = known_peers
          /\ invites_to_send' = invites_to_send]_vars

\* a peer without any record has just performed its lookup, in a round in which
\* other peers queued invites
C18_Witness ==
    /\ lookup # <<>>
    /\ DOMAIN lookup[1].before = {}
    /\ lookup[1].result = NoPeer
    /\ DOMAIN known_peers[lookup[1].peer] = {}
    /\ pc = "phase2"
    /\ invites_to_send # <<>>
    /\ round_number = 1

\* a lookup has just been performed: no step of the round has run since
JustLooked ==
    /\ lookup # <<>>
    /\ \/ pc = "phase1" /\ idx > 1 /\ lookup[1].peer = order[idx - 1]
       \/ pc = "phase2"

\* the relationships of every peer as the last lookup found them
LookupTables == [known_peers EXCEPT ![lookup[1].peer] = lookup[1].before]

\* every hop of the path goes to a Connected peer of the current node that is
\* strictly closer to the target
GreedyPath(kpAll, path, target) ==
    \A k \in 1 .. Len(path) - 1 :
        /\ path[k + 1] \in get_connected_peers(kpAll[path[k]])
        /\ xor_distance(path[k + 1], target) < xor_distance(path[k], target)

\* C19: along every walk of a lookup, for every hop limit, each hop moves to a
\* Connected peer of the current node that is strictly closer to the target; the
\* walk makes at most as many hops as its limit, its last node is at most as far
\* from the target as its first, and it is the node the search returns.
C19_GreedyMonotone ==
    JustLooked =>
        \A i \in 1 .. Len(lookup[1].starting_points) : \A hops \in 0 .. MaxHops :
            LET target == lookup[1].target
                path == walk_path(LookupTables, lookup[1].starting_points[i], target, hops) IN
            /\ GreedyPath(LookupTables, path, target)
            /\ Len(path) <= hops + 1
            /\ xor_distance(path[Len(path)], target) <= xor_distance(path[1], target)
            /\ path[Len(path)] =
                   recursive_search_with_hop_limit(LookupTables, path[1], target, hops)
            /\ hops = MaxHops => path[Len(path)] = lookup[1].terminals[i]

\* a walk of the last lookup made two hops
C19_Witness ==
    /\ JustLooked
    /\ \E i \in 1 .. Len(lookup[1].starting_points) :
          Len(walk_path(LookupTables, lookup[1].starting_points[i], lookup[1].target, MaxHops)) >= 3

\* C20: whenever the peer of a lookup knows at least one peer, its starting points
\* are the known peer (in any state) closest to the target, followed by
\* min(2, number of other known peers) distinct other known peers, whatever the id
\* of the closest known peer, 0 included.
C20_StartingPoints ==
    (lookup # <<>> /\ DOMAIN lookup[1].before # {}) =>
        LET known == DOMAIN lookup[1].before
            closest == ClosestTo(known, lookup[1].target)
            sp == lookup[1].starting_points IN
        /\ Len(sp) = 1 + Min2(2, Cardinality(known) - 1)
        /\ sp[1] = closest
        /\ \A k \in 2 .. Len(sp) : sp[k] \in known \ {closest}
        /\ \A j, k \in 1 .. Len(sp) : sp[j] = sp[k] => j = k

\* C21: the lookup returns the terminal of minimum distance to the target among
\* the terminals of all its walks, none discarded; terminals at equal distance are
\* the same node (XOR distances to one target differ for different ids), so the
\* earliest walk's terminal is that node.
C21_LookupResult ==
    (lookup # <<>> /\ lookup[1].terminals # <<>>) =>
        /\ Len(lookup[1].terminals) = Len(lookup[1].starting_points)
        /\ lookup[1].result \in Range(lookup[1].terminals)
        /\ \A k \in 1 .. Len(lookup[1].terminals) :
              xor_distance(lookup[1].result, lookup[1].target)
                 <= xor_distance(lookup[1].terminals[k], lookup[1].target)

\* a walk is running or has returned
Walking == call # <<>> /\ call[1].fn = "_recursive_search_with_hop_limit"

\* C22: every walk makes at most MaxHops hops whatever Connected relationships it
\* meets: the budget left is MaxHops minus the hops made and never negative, a
\* call with no budget left returns its own node, and the walk returns the last
\* node it called, which is the result of the search over the graph it met.
C22_HopBudget ==
    Walking =>
        LET f == call[1] IN
        /\ Len(f.path) <= MaxHops + 1
        /\ f.max_hops = MaxHops - (Len(f.path) - 1)
        /\ f.start_peer_id = f.path[Len(f.path)]
        /\ f.done =>
              /\ f.returned = f.path[Len(f.path)]
              /\ f.returned = recursive_search_with_hop_limit(known_peers, f.start, f.target, MaxHops)
        /\ (~f.done /\ f.max_hops = 0) =>
              recursive_search_with_hop_limit(known_peers, f.start_peer_id, f.target, f.max_hops)
                 = f.start_peer_id

\* a walk has made MaxHops hops and returned the node it had reached
C22_Witness ==
    /\ Walking
    /\ call[1].done
    /\ Len(call[1].path) = MaxHops + 1
    /\ call[1].max_hops = 0
    /\ call[1].returned = call[1].path[MaxHops + 1]

\* the peers whose inbox grows in the step, and by how much it grows
InvitedInStep(q) == Len(pending_invites'[q]) - Len(pending_invites[q])

\* C23: in phase 3 a peer with k >= 1 Connected relationships after its drain
\* originates exactly min(2, k) maintenance invites, to distinct peers that are
\* Connected in its own map; a peer with no Connected relationship originates none.
C23_MaintenanceInvites ==
    [][pc = "maintain" =>
          LET p == order[idx]
              connected_peers == get_connected_peers(known_peers[p])
              invited == {q \in peers : InvitedInStep(q) > 0} IN
          /\ Cardinality(invited) = Min2(2, Cardinality(connected_peers))
          /\ invited \subseteq connected_peers
          /\ \A q \in invited :
                /\ InvitedInStep(q) = 1
                /\ pending_invites'[q] =
                      Append(pending_invites[q], Invite(p, round_number, "maintenance"))]_vars

\* C24: scenario safety, at the scale of the checked runs (the established peers
\* fully mutually Connected at bootstrap, one joining peer): no established peer
\* has more than max_connections Connected relationships in any state of the run,
\* the bootstrap state included.
C24_ScenarioDegreeBound ==
    \A p \in connected_set : ConnectedCount(p) <= max_connections[p]

\* the joining peer holds an established peer in state Connected
JoinerConnected ==
    \A j \in candidate_set : \E e \in connected_set :
        get_peer_state(known_peers[j], e) = CONNECTED

\* C25: scenario liveness, at the scale of the checked runs: the joining peer,
\* which starts with a single Identified record, eventually holds at least one
\* established peer in state Connected.
C25_JoinerConnects == <>JoinerConnected

\* the configuration of the simulator under construction
Config == call[1].config

\* a bound below 1, fewer than 2 established peers, or fewer ids in the address
\* space than peers to generate
InvalidConfig ==
    \/ Config.max_connections_per_peer < 1
    \/ Config.connected_set_size < 2
    \/ 2 ^ Config.address_space_bits < Config.connected_set_size + Config.candidate_set_size

\* C26: a simulator is never built from an invalid configuration.
C26_InvalidConfigRejected ==
    (call # <<>> /\ call[1].fn = "__init__" /\ InvalidConfig) => pc = "construct"

\* the (sender, receiver) pairs of invites from p to every peer of S
SetToSends(p, S) == [k \in 1 .. Cardinality(S) |-> <<p, Ascending(S)[k]>>]

\* the inboxes after the invites of sends reached their registered receivers
InboxesAfter(sends, kind) ==
    [q \in peers |->
        pending_invites[q] \o
           SelectSeq([k \in 1 .. Len(sends) |->
                         IF sends[k][2] = q THEN Invite(sends[k][1], round_number, kind)
                         ELSE Invite(NoPeer, round_number, kind)],
                     LAMBDA inv : inv.sender_id # NoPeer)]

\* C27: an invite whose target is not in the registry is dropped silently: the
\* step that sends invites (phase 2, maintenance) appends them to the inboxes of
\* the registered targets only, creates no inbox, changes no relationship and no
\* registry entry, and goes on to the next statement of the round.
C27_DroppedInvite ==
    [][/\ pc = "phase2" =>
            /\ pending_invites' = InboxesAfter(invites_to_send, "discovery")
            /\ known_peers' = known_peers /\ order' = order /\ pc' = "process"
       /\ pc = "maintain" =>
            LET p == order[idx]
                connected_peers == get_connected_peers(known_peers[p]) IN
            /\ \E selected_peers \in SUBSET connected_peers :
                  /\ Cardinality(selected_peers) = (IF Cardinality(connected_peers) >= 2 THEN 2 ELSE 0)
                  /\ pending_invites' =
                        InboxesAfter(SetToSends(p, selected_peers), "maintenance")
            /\ known_peers' = known_peers /\ order' = order /\ pc' = "remove"]_vars

\* a peer whose two Connected relationships are a registered peer and a peer that
\* is not in the registry has just sent its maintenance invites: the registered
\* one holds the invite
C27_Witness ==
    /\ pc = "remove"
    /\ LET p == order[idx]
           connected_peers == get_connected_peers(known_peers[p]) IN
       /\ Cardinality(connected_peers) = 2
       /\ \E d \in connected_peers : \E q \in connected_peers :
             /\ d \notin peers
             /\ q \in peers
             /\ pending_invites[q] # <<>>
             /\ pending_invites[q][Len(pending_invites[q])] =
                   Invite(p, round_number, "maintenance")
    /\ DOMAIN pending_invites = peers

\* the distance function of the last call, applied to two ids
DistanceOf(fn, a, b) ==
    IF fn = "_xor_distance" THEN xor_distance(a, b) ELSE ring_distance(address_space_bits, a, b)

\* C28: both distance functions are symmetric and zero exactly on equal ids, for
\* all ids of the address space; their values are non-negative integers.
C28_DistanceSymmetricZero ==
    (pc = "distance" /\ call # <<>>) =>
        LET f == call[1] IN
        /\ f.result = DistanceOf(f.fn, f.peer2_id, f.peer1_id)
        /\ f.result = 0 <=> f.peer1_id = f.peer2_id
        /\ f.result \in Nat

\* the ring distance of two ids was taken around the ring, the shorter way
C28_Witness ==
    /\ pc = "distance"
    /\ call # <<>>
    /\ call[1].fn = "_ring_distance"
    /\ call[1].peer1_id < call[1].peer2_id
    /\ call[1].result < call[1].peer2_id - call[1].peer1_id
    /\ call[1].result > 0

StepOwner == IF pc \in {"phase1", "process", "maintain", "remove"} THEN order[idx] ELSE NoPeer

\* the invites a step has appended to the inbox of P
AppendedTo(P) ==
    SubSeq(pending_invites'[P], Len(pending_invites[P]) + 1, Len(pending_invites'[P]))

\* C30: a peer's relationship records change only in that peer's own discovery
\* transition, inbox drain or eviction; any other step leaves them as they are
\* and changes of the peer at most its inbox, by appending invites sent by
\* other peers.
C30_RecordOwnership ==
    [][\A P \in peers :
          /\ known_peers'[P] # known_peers[P] =>
                (P = StepOwner /\ pc \in {"phase1", "process", "remove"})
          /\ P # StepOwner =>
                /\ IsPrefix(pending_invites[P], pending_invites'[P])
                /\ \A i \in 1 .. Len(AppendedTo(P)) : AppendedTo(P)[i].sender_id \in peers \ {P}
          /\ P = StepOwner =>
                \/ pending_invites'[P] = pending_invites[P]
                \/ pc = "process" /\ pending_invites'[P] = <<>>]_vars

\* a peer has just drained an inbox that held a discovery invite and a maintenance
\* invite of other peers, and the drain has changed its records
C30_Witness ==
    /\ pc = "maintain"
    /\ drained # <<>>
    /\ drained[1].peer = order[idx]
    /\ known_peers[order[idx]] # drained[1].before
    /\ \E i \in 1 .. Len(drained[1].inbox) : \E j \in 1 .. Len(drained[1].inbox) :
          /\ drained[1].inbox[i].kind = "discovery"
          /\ drained[1].inbox[j].kind = "maintenance"
          /\ drained[1].inbox[i].sender_id # order[idx]
          /\ drained[1].inbox[j].sender_id # order[idx]

\* __init__ has returned: the network is built and no round has started
Constructed == pc = "phase1" /\ call # <<>> /\ call[1].fn = "__init__" /\ call[1].stage = "constructed"

\* C31: after construction every established peer holds exactly the other
\* established peers, Connected and last heard in round 0; every joining peer holds
\* min(initial_identified_peers, number of established peers) records, all
\* Identified and all of established peers; nobody holds a record of a joining
\* peer; the ids are pairwise distinct and every inbox is empty.
C31_BootstrapState ==
    Constructed =>
        /\ \A p \in connected_set :
              /\ DOMAIN known_peers[p] = connected_set \ {p}
              /\ \A q \in DOMAIN known_peers[p] : known_peers[p][q] = PeerInfo(CONNECTED, 0)
        /\ \A c \in candidate_set :
              /\ Cardinality(DOMAIN known_peers[c]) =
                    Min2(Config.initial_identified_peers, Cardinality(connected_set))
              /\ DOMAIN known_peers[c] \subseteq connected_set
              /\ \A q \in DOMAIN known_peers[c] : known_peers[c][q].state = IDENTIFIED
        /\ \A p \in peers : (DOMAIN known_peers[p]) \cap candidate_set = {}
        /\ connected_set \cap candidate_set = {}
        /\ Cardinality(connected_set) = Config.connected_set_size
        /\ Cardinality(candidate_set) = Config.candidate_set_size
        /\ peers = connected_set \cup candidate_set
        /\ Cardinality(peers) = Len(order)
        /\ DOMAIN known_peers = peers
        /\ DOMAIN pending_invites = peers
        /\ \A p \in peers : pending_invites[p] = <<>>

\* a network of several established peers and a joining peer with an Identified
\* record has been built
C31_Witness ==
    /\ Constructed
    /\ Cardinality(connected_set) >= 3
    /\ \E c \in candidate_set : \E q \in DOMAIN known_peers[c] : known_peers[c][q].state = IDENTIFIED

\* at the end of a round P holds Q as Connected and Q does not hold P as Connected
Asymmetric(P, Q) ==
    /\ pc = "record"
    /\ get_peer_state(known_peers[P], Q) = CONNECTED
    /\ get_peer_state(known_peers[Q], P) # CONNECTED

\* C32: admission is not a handshake: at the end of a round a peer P can hold Q
\* as Connected while Q does not hold P as Connected (C32_Witness is such a state),
\* and then Q's record of P is absent, Pending or Prospect, never Identified.
C32_AsymmetricAdmission ==
    \A P \in peers : \A Q \in peers :
        Asymmetric(P, Q) => get_peer_state(known_peers[Q], P) \in {UNKNOWN, PENDING, PROSPECT}

\* a round ends with a record that became Connected in it on one side only: the
\* other side is still Pending or Prospect
C32_Witness ==
    \E P \in peers : \E Q \in peers :
        /\ Asymmetric(P, Q)
        /\ get_peer_state(round_start[P], Q) # CONNECTED
        /\ get_peer_state(known_peers[Q], P) \in {PENDING, PROSPECT}

\* C33: entry_times changes only when a round is recorded; a joining peer without
\* an entry gets the index of the round that ends iff it then holds a Connected
\* record, so its entry is the first such round; an entry never changes.
C33_FirstConnectionRound ==
    [][/\ pc # "record" => entry_times' = entry_times
       /\ pc = "record" =>
             /\ DOMAIN entry_times' \subseteq candidate_set
             /\ \A c \in candidate_set :
                   /\ c \in DOMAIN entry_times =>
                         (c \in DOMAIN entry_times' /\ entry_times'[c] = entry_times[c])
                   /\ (c \notin DOMAIN entry_times /\ ConnectedCount(c) > 0) =>
                         (c \in DOMAIN entry_times' /\ entry_times'[c] = round_number)
                   /\ (c \notin DOMAIN entry_times /\ ConnectedCount(c) = 0) =>
                         c \notin DOMAIN entry_times'
                   /\ (c \in DOMAIN entry_times' /\ round_number >= 1) =>
                         \/ entry_times'[c] = round_number
                         \/ entry_times'[c] < round_number - 1
                         \/ get_connected_peers(round_start[c]) # {}]_vars

\* a joining peer's first-connection round was recorded one round ago and a
\* further round has been recorded since
C33_Witness ==
    /\ pc = "phase1"
    /\ idx = 1
    /\ \E c \in candidate_set :
          /\ c \in DOMAIN entry_times
          /\ entry_times[c] = round_number - 2
          /\ ConnectedCount(c) > 0

\* C34: the bucket targets of calculate_optimal_distribution sum to exactly
\* max_connections, for every max_connections >= 1 and every number of buckets
\* from 1 to 8.
C34_TargetsSumToBound ==
    (pc = "targets" /\ call # <<>>) =>
        SumOver(call[1].bucket_targets, 1 .. call[1].num_buckets) = call[1].max_connections

\* C35: a lookup that returns a peer whose record is Pending changes neither the
\* record nor the queue of invites; a Pending record changes only in the
\* owner's drain of an inbox that holds an invite of that peer, and becomes
\* Connected there.
C35_PendingWaits ==
    [][/\ (pc = "phase1" /\ lookup' # <<>>) =>
             LET p == order[idx]
                 discovered == lookup'[1].result IN
             (acts_on(discovered, p) /\ get_peer_state(known_peers[p], discovered) = PENDING) =>
                 /\ known_peers'[p] = known_peers[p]
                 /\ invites_to_send' = invites_to_send
       /\ \A P \in peers : \A D \in DOMAIN known_peers[P] :
             (/\ known_peers[P][D].state = PENDING
              /\ (D \notin DOMAIN known_peers'[P] \/ known_peers'[P][D] # known_peers[P][D])) =>
                 /\ pc = "process"
                 /\ P = order[idx]
                 /\ \E i \in 1 .. Len(pending_invites[P]) : pending_invites[P][i].sender_id = D
                 /\ D \in DOMAIN known_peers'[P]
                 /\ known_peers'[P][D].state = CONNECTED]_vars

\* a lookup has just returned a peer whose record is Pending, and the record and
\* the invite queue are as they were before
C35_Witness ==
    /\ lookup # <<>>
    /\ acts_on(lookup[1].result, lookup[1].peer)
    /\ get_peer_state(lookup[1].before, lookup[1].result) = PENDING
    /\ known_peers[lookup[1].peer] = lookup[1].before
    /\ invites_to_send = lookup[1].queued

\* C36: a drain leaves the record of a Prospect sender as it is, state and
\* last_heard_from; a Prospect record changes only in its owner's phase-1 step
\* whose lookup returned that peer, and becomes Connected there.
C36_ProspectWaits ==
    [][\A R \in peers : \A S \in DOMAIN known_peers[R] :
          known_peers[R][S].state = PROSPECT =>
             /\ (pc = "process" /\ R = order[idx]) =>
                   (S \in DOMAIN known_peers'[R] /\ known_peers'[R][S] = known_peers[R][S])
             /\ (S \notin DOMAIN known_peers'[R] \/ known_peers'[R][S] # known_peers[R][S]) =>
                   /\ pc = "phase1"
                   /\ R = order[idx]
                   /\ lookup'[1].result = S
                   /\ S \in DOMAIN known_peers'[R]
                   /\ known_peers'[R][S].state = CONNECTED]_vars

\* a peer has just drained an inbox that held an invite of a sender whose record
\* was Prospect, and the record is as it was
C36_Witness ==
    /\ pc = "maintain"
    /\ drained # <<>>
    /\ \E i \in 1 .. Len(drained[1].inbox) :
          LET S == drained[1].inbox[i].sender_id IN
          /\ get_peer_state(drained[1].before, S) = PROSPECT
          /\ known_peers[drained[1].peer][S] = drained[1].before[S]

\* C37: after a drain the record of every sender S of the inbox is in the state a
\* drain of a single invite of S would have left it in, whatever the record was
\* before and however many invites of S the inbox held.
C37_DuplicatesIdempotent ==
    (pc = "drain" /\ call # <<>>) =>
        LET f == call[1] IN
        \A i \in 1 .. Len(f.inbox) :
            LET S == f.inbox[i].sender_id IN
            get_peer_state(f.after, S) =
                get_peer_state(process_invites(f.before, <<f.inbox[i]>>, round_number), S)

\* an inbox with three invites of a sender whose record was Identified has been
\* drained
C37_Witness ==
    /\ pc = "drain"
    /\ call # <<>>
    /\ Len(call[1].inbox) = 3
    /\ \A i \in 1 .. 3 : call[1].inbox[i].sender_id = 1
    /\ get_peer_state(call[1].before, 1) = IDENTIFIED
    /\ get_peer_state(call[1].after, 1) = PROSPECT

\* an invite of Q is in the inbox P is about to drain
InviteWaiting(P, Q) == \E i \in 1 .. Len(pending_invites[P]) : pending_invites[P][i].sender_id = Q

\* this step is P's phase-1 iteration and queues an invite of P to Q
QueuesInvite(P, Q) ==
    pc = "phase1" /\ P = order[idx] /\ invites_to_send' = Append(invites_to_send, <<P, Q>>)

\* this step is P's drain of an inbox that holds an invite of Q
ProcessesInvite(P, Q) == pc = "process" /\ P = order[idx] /\ InviteWaiting(P, Q)

\* C38: a record becomes Connected only from Pending, in the owner's drain of an
\* invite of that peer, or from Prospect, in the owner's phase-1 step that queues
\* an invite to that peer; it becomes Pending only in a phase-1 step of the owner
\* that queues an invite to the peer, and Prospect only in a drain of an invite of
\* the peer. So every record that became Connected after the bootstrap has seen
\* both an invite queued to the peer and an invite of the peer processed.
C38_TwoSidedAdmission ==
    [][\A P \in peers : \A Q \in DOMAIN known_peers'[P] :
          LET old == get_peer_state(known_peers[P], Q)
              new == known_peers'[P][Q].state IN
          /\ (new = CONNECTED /\ old # CONNECTED) =>
                \/ (old = PENDING /\ ProcessesInvite(P, Q))
                \/ (old = PROSPECT /\ QueuesInvite(P, Q))
          /\ (new = PENDING /\ old # PENDING) =>
                (old \in {UNKNOWN, IDENTIFIED} /\ QueuesInvite(P, Q))
          /\ (new = PROSPECT /\ old # PROSPECT) =>
                (old \in {UNKNOWN, IDENTIFIED} /\ ProcessesInvite(P, Q))]_vars

\* a joining peer holds a Connected record, and an established peer holds the
\* joining peer as Connected
C38_Witness ==
    \E P \in candidate_set : \E Q \in connected_set :
        /\ get_peer_state(known_peers[P], Q) = CONNECTED
        /\ get_peer_state(known_peers[Q], P) = CONNECTED

\* C39: a record that stays keeps its state or moves forward: Identified to
\* Pending or Prospect, Pending or Prospect to Connected, and Connected stays; a
\* new record is Pending or Prospect, never Identified; a record disappears only
\* as a Connected record in its owner's eviction.
C39_StatesMoveForward ==
    [][\A P \in peers :
          /\ \A Q \in (DOMAIN known_peers[P]) \cap (DOMAIN known_peers'[P]) :
                LET old == known_peers[P][Q].state
                    new == known_peers'[P][Q].state IN
                /\ old = CONNECTED => new = CONNECTED
                /\ old = PENDING => new \in {PENDING, CONNECTED}
                /\ old = PROSPECT => new \in {PROSPECT, CONNECTED}
                /\ old = IDENTIFIED => new \in {IDENTIFIED, PENDING, PROSPECT}
          /\ \A Q \in (DOMAIN known_peers'[P]) \ (DOMAIN known_peers[P]) :
                known_peers'[P][Q].state \in {PENDING, PROSPECT}
          /\ \A Q \in (DOMAIN known_peers[P]) \ (DOMAIN known_peers'[P]) :
                known_peers[P][Q].state = CONNECTED /\ pc = "remove" /\ P = order[idx]]_vars

\* an eviction has just deleted a record while a joining peer, whose records were
\* all Identified after the bootstrap, holds a Connected one
C39_Witness ==
    /\ JustRemoved
    /\ \E q \in DOMAIN round_start[RemovedPeer] : q \notin DOMAIN known_peers[RemovedPeer]
    /\ \E c \in candidate_set : get_connected_peers(known_peers[c]) # {}

\* ------------------------------------------- eviction under the prefix-bucketed policy
\* ImprovedDistanceSimulator(config) on a fully connected network of established
\* peers, at the eviction of Phase 3 of its first round
InitPrefixEvict ==
    \E est \in SUBSET IdsOf(AddressBits + 1) : \E maxc \in 1 .. MaxPrefixConnections :
        /\ Cardinality(est) >= 2
        /\ InitNetwork("prefix", AddressBits + 1, est, {}, maxc, 0, {Ascending(est)}, {<<>>})
        /\ pc = "remove"
        /\ idx \in 1 .. Cardinality(est)

SpecPrefixEvict == InitPrefixEvict /\ [][RemoveExcess]_vars

\* the Connected relationships RemovedPeer had when its eviction was called
ConnectedBefore == Cardinality(get_connected_peers(round_start[RemovedPeer]))

\* the eviction of RemovedPeer was triggered: it had more Connected relationships
\* than its soft limit
PrefixTriggered ==
    /\ policy = "prefix"
    /\ JustRemoved
    /\ ConnectedBefore > prefix_soft_max(max_connections[RemovedPeer])

\* C40: no over-eviction under the prefix-bucketed policy: a triggered eviction on
\* a peer with c Connected relationships removes at most c - max_connections of
\* them, so the peer keeps at least max_connections Connected relationships.
C40_NoOverEviction ==
    PrefixTriggered =>
        /\ ConnectedBefore - ConnectedCount(RemovedPeer) <= ConnectedBefore - max_connections[RemovedPeer]
        /\ ConnectedCount(RemovedPeer) >= max_connections[RemovedPeer]

====
